---- MODULE Spec2Model ----
(***************************************************************************)
(* Service registry / discovery of fireflycore/go-micro.                    *)
(*                                                                         *)
(* The Discovery Caches of the three adapters (etcd event stream, Consul   *)
(* long poll, Kubernetes poll-and-diff) are modelled together with the     *)
(* part of the backend each of them reads.  One behaviour runs one         *)
(* adapter: `backend` is chosen by Init and never changes.                 *)
(***************************************************************************)
EXTENDS Integers, Sequences, FiniteSets, TLC

\* ------------------------------------------------------------------ bounds
\* number of revisions (one change each) the etcd store goes through
MaxRev == 3
\* number of entries in one Consul health snapshot
MaxEntries == 2

\* ------------------------------------------------------------ value domains
AppSeq == <<"a", "b">>
Apps == {AppSeq[i] : i \in 1..Len(AppSeq)}
Leases == {1, 2}
MethodSets == {{"X"}, {"X", "Y"}}
MethodNames == UNION MethodSets
\* the env every Discovery Cache of the model is constructed for (s.meta.Env)
CacheEnv == "prod"

VARIABLES
    backend,        \* which adapter this behaviour runs
    \* ---- etcd backend
    etcdLog,        \* the store's history: etcdLog[r] is the change made at revision r
    compactRev,     \* the store's compaction revision (0: never compacted)
    \* ---- etcd DiscoverInstance
    etcdService,    \* s.service : appId -> node list
    etcdMethod,     \* s.method  : method -> appId
    watchRev,       \* s.watchRev
    startRev,       \* Watcher's local startRev
    streamRev,      \* next revision the open watch stream delivers
    etcdPc,         \* where the instance / its Watcher is
    etcdCtxDone,    \* s.ctx cancelled
    \* ---- Consul DiscoverInstance
    consulService,  \* s.service
    consulMethod,   \* s.method
    waitIndex,      \* s.waitIndex
    consulPc,       \* where the instance / its Watcher is
    consulCtxDone,  \* s.ctx cancelled
    healthEntries,  \* the health snapshot last handed to rebuild, where the behaviour keeps it
    \* ---- Kubernetes backend
    now,            \* the wall clock, in seconds
    cmExists,       \* the registry ConfigMap of the env exists
    cmData,         \* its data : key -> value
    cmRV,           \* the resourceVersion the API server last handed out
    \* ---- Kubernetes DiscoverInstance
    k8sService,     \* s.service
    k8sMethod,      \* s.method
    resourceVersion,\* s.resourceVersion (0: the empty string)
    k8sPc,          \* where the instance / its Watcher is
    k8sCtxDone,     \* s.ctx cancelled
    pollResult      \* how the last poll that returned nil at the present instant ended

VARIABLES
    \* ---- Registration Session (RegisterInstance) and the registration it owns
    regPc,          \* where the session / its SustainLease loop is ("off": no session)
    regConf,        \* s.conf : [maxRetry, ttl]
    regMeta,        \* s.meta : [appId, env]
    regCtxDone,     \* s.ctx cancelled
    retryCount,     \* s.retryCount
    retryBefore,    \* how often the s.retryBefore hook has fired
    retryAfter,     \* how often the s.retryAfter hook has fired
    lossCount,      \* how often the running SustainLease call has lost its renewal
    attemptCount,   \* how many recovery attempts the running call has started (s.retryCount++)
    regLastNode,    \* s.lastNode ("nil" or the installed service)
    regStored,      \* the registration the backend holds for the session ("none" or a service)
    regWrite,       \* the last write the session issued to the backend, and its parity
    regResult,      \* what the last Install returned
    regRemoving     \* Uninstall has cancelled s.ctx and not yet issued its removal

VARIABLES
    \* ---- what the Registration Session holds and sends (RegisterInstance)
    leaseId,        \* s.lease (etcd) / s.leaseId (Consul, Kubernetes); 0 before NewRegister
    nodeVal,        \* the fields of *s.lastNode (NilNode while s.lastNode is nil)
    serviceId,      \* Consul: s.serviceId
    checkId,        \* Consul: s.checkId
    agentCalls,     \* Consul: the agent calls the last call of the session issued
    wire            \* the node value the backend holds from the session's last write

nodeVars == <<leaseId, nodeVal, serviceId, checkId, agentCalls, wire>>

VARIABLES
    \* ---- Kubernetes sessions writing into the one ConfigMap, call by call
    writers         \* per session: where its upsertDataKey / deleteDataKey call is

writeVars == <<writers>>
regVars == <<regPc, regConf, regMeta, regCtxDone, retryCount, retryBefore, retryAfter,
             lossCount, attemptCount, regLastNode, regStored, regWrite, regResult,
             regRemoving, nodeVars, writeVars>>

VARIABLES
    \* ---- the RWMutex of the DiscoverInstance and one GetService call beside the Watcher
    mu,             \* s.mu: "free", "R" (held by GetService) or "W" (held by the Watcher)
    pending,        \* what the Watcher's critical section has still to assign ("none": nothing)
    getPc,          \* where the GetService call is
    getSm,          \* its argument sm
    getApp,         \* its local appId
    getOut,         \* what it returned
    getView         \* the index as it was when the call took the read lock

readVars == <<mu, pending, getPc, getSm, getApp, getOut, getView>>

etcdVars == <<etcdLog, compactRev, etcdService, etcdMethod, watchRev, startRev,
              streamRev, etcdPc, etcdCtxDone>>
consulVars == <<consulService, consulMethod, waitIndex, consulPc, consulCtxDone, healthEntries>>
k8sVars == <<now, cmExists, cmData, cmRV, k8sService, k8sMethod, resourceVersion,
             k8sPc, k8sCtxDone, pollResult>>
vars == <<backend, etcdVars, consulVars, k8sVars, regVars, readVars>>

\* --------------------------------------------------------- Go maps and slices
EmptyMap == [x \in {} |-> x]
MapSet(f, k, v) == [x \in (DOMAIN f) \cup {k} |-> IF x = k THEN v ELSE f[x]]
MapDelete(f, k) == [x \in (DOMAIN f) \ {k} |-> f[x]]
\* indexing a map of slices with a missing key yields the nil slice
MapGetSlice(f, k) == IF k \in DOMAIN f THEN f[k] ELSE <<>>

\* ------------------------------------------------------------- ServiceNode
\* RunDate is text: time.Now().Format(time.DateTime) keeps whole seconds; the
\* text may also be empty or no date at all
Format(t) == [text |-> "datetime", sec |-> t]
EmptyString == [text |-> "empty", sec |-> 0]
NoDateTime == [text |-> "garbage", sec |-> 0]
ParseInLocation(rd) == [err |-> rd.text # "datetime", t |-> rd.sec]

\* a decoded ServiceNode; metaNil stands for Meta == nil
Node(a, e, l, ms, rd) ==
    [metaNil |-> FALSE, appId |-> a, env |-> e, leaseId |-> l, methods |-> ms, runDate |-> rd]
\* the wire value: JSON text of a node, or text that is no JSON
Marshal(node) == [json |-> TRUE, node |-> node]
NotJson == [json |-> FALSE, node |-> Node("", "", 0, {}, EmptyString)]
Unmarshal(raw) == [err |-> ~raw.json, val |-> raw.node]
\* the identity check every adapter applies to a decoded node
MetaInvalid(val) == val.metaNil \/ val.appId = "" \/ val.env = ""


\* ===================================================== etcd Discovery Cache
\* index state handed through the locked helpers: [service, method]
Index(svc, mth) == [service |-> svc, method |-> mth]

\* refreshMethodsLocked that only adds: entries of appId are never cleared
refreshMethodsLockedNoClear(idx, appId) ==
    LET nodes == MapGetSlice(idx.service, appId)
        served == UNION {nodes[i].methods : i \in 1..Len(nodes)}
    IN Index(idx.service,
             [sm \in (DOMAIN idx.method) \cup served |->
                 IF sm \in served THEN appId ELSE idx.method[sm]])

\* refreshMethodsLocked: drop every entry owned by appId, then re-add the methods
\* of the nodes now listed under appId
refreshMethodsLocked(idx, appId) ==
    LET kept == {sm \in DOMAIN idx.method : idx.method[sm] # appId}
        nodes == MapGetSlice(idx.service, appId)
        live == {i \in 1..Len(nodes) : ~(nodes[i].metaNil \/ nodes[i].appId = "")}
        served == UNION {nodes[i].methods : i \in live}
    IN Index(idx.service,
             [sm \in kept \cup served |-> IF sm \in served THEN appId ELSE idx.method[sm]])

\* upsertNodeLocked that prepends without filtering out the old node
upsertNodeLockedNoFilter(idx, appId, newNode) ==
    refreshMethodsLocked(
        Index(MapSet(idx.service, appId, <<newNode>> \o MapGetSlice(idx.service, appId)),
              idx.method), appId)

\* upsertNodeLocked: filter out the old node of the same leaseId, prepend the new one
upsertNodeLocked(idx, appId, newNode) ==
    LET nodes == SelectSeq(MapGetSlice(idx.service, appId),
                           LAMBDA item : item.leaseId # newNode.leaseId)
    IN refreshMethodsLocked(
           Index(MapSet(idx.service, appId, <<newNode>> \o nodes), idx.method), appId)

\* deleteNodeLocked that keeps the appId when its list is empty
deleteNodeLockedKeepEmpty(idx, appId, removedNode) ==
    LET nodes == SelectSeq(MapGetSlice(idx.service, appId),
                           LAMBDA item : item.leaseId # removedNode.leaseId)
    IN refreshMethodsLocked(Index(MapSet(idx.service, appId, nodes), idx.method), appId)

\* deleteNodeLocked that drops the appId with all its nodes
deleteNodeLockedDropApp(idx, appId, removedNode) ==
    refreshMethodsLocked(Index(MapDelete(idx.service, appId), idx.method), appId)

\* deleteNodeLocked: filter out the leaseId, drop the appId when its list is empty
deleteNodeLocked(idx, appId, removedNode) ==
    LET nodes == SelectSeq(MapGetSlice(idx.service, appId),
                           LAMBDA item : item.leaseId # removedNode.leaseId)
        assigned == MapSet(idx.service, appId, nodes)
        svc == IF Len(assigned[appId]) = 0 THEN MapDelete(assigned, appId) ELSE assigned
    IN refreshMethodsLocked(Index(svc, idx.method), appId)

\* a watch event: Kv / PrevKv may be nil (hasKv / hasPrevKv)
Event(t, k, hasKv, kv, hasPrevKv, prevKv) ==
    [type |-> t, key |-> k, hasKv |-> hasKv, kv |-> kv,
     hasPrevKv |-> hasPrevKv, prevKv |-> prevKv]

\* (variant for comparison: the previous value is decoded whenever the event has one)
adapterPrevKvFirst(idx, e) ==
    IF e.type = "DELETE" /\ ~e.hasPrevKv THEN idx
    ELSE IF e.type # "DELETE" /\ ~e.hasKv THEN idx
    ELSE LET tv == IF e.hasPrevKv THEN e.prevKv ELSE e.kv
             d == Unmarshal(tv)
         IN IF d.err THEN idx
            ELSE IF MetaInvalid(d.val) THEN idx
            ELSE IF e.type = "PUT" THEN upsertNodeLocked(idx, d.val.appId, d.val)
            ELSE IF e.type = "DELETE" THEN deleteNodeLocked(idx, d.val.appId, d.val)
            ELSE idx

\* adapter: decode the event's value and apply it to both indices
adapter(idx, e) ==
    IF e.type = "DELETE" /\ ~e.hasPrevKv THEN idx
    ELSE IF e.type # "DELETE" /\ ~e.hasKv THEN idx
    ELSE LET tv == IF e.type = "DELETE" THEN e.prevKv ELSE e.kv
             d == Unmarshal(tv)
         IN IF d.err THEN idx
            ELSE IF MetaInvalid(d.val) THEN idx
            ELSE IF e.type = "PUT" THEN upsertNodeLocked(idx, d.val.appId, d.val)
            ELSE IF e.type = "DELETE" THEN deleteNodeLocked(idx, d.val.appId, d.val)
            ELSE idx

\* GetService: method -> appId -> copy of the node list
GetService(idx, sm) ==
    IF sm \notin DOMAIN idx.method
    THEN [err |-> "ErrServiceMethodNotExists", nodes |-> <<>>]
    ELSE IF idx.method[sm] \notin DOMAIN idx.service
    THEN [err |-> "ErrServiceNodeNotExists", nodes |-> <<>>]
    ELSE [err |-> "nil", nodes |-> idx.service[idx.method[sm]]]

\* ------------------------------------------------------------- etcd store
\* keys {namespace}/{env}/{appId}/{leaseId} in the order a prefix Get returns them,
\* followed by one key that is not a registration
JunkKey == <<"junk", 0>>
KeySeq == <<<<"a", 1>>, <<"a", 2>>, <<"b", 1>>, JunkKey>>
EtcdKeys == {KeySeq[i] : i \in 1..Len(KeySeq)}
\* keys of sessions of other envs, <<appId, leaseId, env>>, after the keys above
ForeignKeySeq == <<<<"a", 2, "prod2">>, <<"b", 1, "dev">>>>
\* the characters of an env name
EnvChars(e) ==
    CASE e = "prod" -> <<"p", "r", "o", "d">>
      [] e = "prod2" -> <<"p", "r", "o", "d", "2">>
      [] e = "dev" -> <<"d", "e", "v">>
\* clientv3.WithPrefix(): the keys a Get / Watch of the cache covers.  The key
\* and the prefix are compared as strings, here after the "{namespace}/" they
\* share: "{env}/{appId}/..." against "{env}"
UnderPrefix(k) ==
    LET keyEnv == IF Len(k) = 3 THEN k[3] ELSE CacheEnv
        keyPath == EnvChars(keyEnv) \o <<"/", k[1], "/">>
        watchKey == EnvChars(CacheEnv)
    IN Len(watchKey) <= Len(keyPath) /\ SubSeq(keyPath, 1, Len(watchKey)) = watchKey
\* what a Registration Session writes under its key (the session of a/1 may
\* re-register with another method set), and what the junk key may hold
EtcdValues(k) ==
    IF Len(k) = 3
    THEN {Marshal(Node(k[1], k[3], k[2], {"X"}, Format(0)))}
    ELSE IF k = JunkKey
    THEN {NotJson, Marshal(Node("", CacheEnv, 1, {"X"}, Format(0)))}
    ELSE {Marshal(Node(k[1], CacheEnv, k[2], ms, Format(0))) :
             ms \in IF k = <<"a", 1>> THEN MethodSets ELSE {{"X"}}}

Rev == Len(etcdLog)
RECURSIVE StoreAt(_)
StoreAt(r) ==
    IF r = 0 THEN EmptyMap
    ELSE LET e == etcdLog[r]
         IN IF e.type = "PUT" THEN MapSet(StoreAt(r - 1), e.key, e.kv)
            ELSE MapDelete(StoreAt(r - 1), e.key)
Store == StoreAt(Rev)
\* the values a prefix Get returns, in key order
Kvs(store) ==
    LET keys == SelectSeq(KeySeq \o ForeignKeySeq,
                          LAMBDA k : k \in DOMAIN store /\ UnderPrefix(k))
    IN [i \in 1..Len(keys) |-> store[keys[i]]]

EtcdPut(k, v) ==
    /\ backend = "etcd"
    /\ Rev < MaxRev
    /\ etcdLog' = Append(etcdLog,
          Event("PUT", k, TRUE, v, k \in DOMAIN Store,
                IF k \in DOMAIN Store THEN Store[k] ELSE NotJson))
    /\ UNCHANGED <<consulVars, k8sVars, backend, regVars, readVars, compactRev, etcdService, etcdMethod, watchRev, startRev,
                   streamRev, etcdPc, etcdCtxDone>>

EtcdDelete(k) ==
    /\ backend = "etcd"
    /\ Rev < MaxRev
    /\ k \in DOMAIN Store
    /\ etcdLog' = Append(etcdLog, Event("DELETE", k, TRUE, NotJson, TRUE, Store[k]))
    /\ UNCHANGED <<consulVars, k8sVars, backend, regVars, readVars, compactRev, etcdService, etcdMethod, watchRev, startRev,
                   streamRev, etcdPc, etcdCtxDone>>

EtcdCompact(c) ==
    /\ backend = "etcd"
    /\ c > compactRev
    /\ c <= Rev
    /\ compactRev' = c
    /\ UNCHANGED <<consulVars, k8sVars, backend, regVars, readVars, etcdLog, etcdService, etcdMethod, watchRev, startRev,
                   streamRev, etcdPc, etcdCtxDone>>

\* ------------------------------------------------- NewDiscover / bootstrap
\* the cursor bootstrap records for the Get's header revision
bootstrapWatchRev(headerRev) == headerRev + 1

RECURSIVE bootstrapKvs(_, _, _)
bootstrapKvs(idx, kvs, i) ==
    IF i > Len(kvs) THEN idx
    ELSE LET d == Unmarshal(kvs[i])
         IN bootstrapKvs(IF d.err \/ MetaInvalid(d.val) THEN idx
                         ELSE upsertNodeLocked(idx, d.val.appId, d.val),
                         kvs, i + 1)

EtcdNewDiscover ==
    /\ backend = "etcd"
    /\ etcdPc = "new"
    /\ LET idx == bootstrapKvs(Index(EmptyMap, EmptyMap), Kvs(Store), 1)
       IN /\ etcdService' = idx.service
          /\ etcdMethod' = idx.method
    /\ watchRev' = bootstrapWatchRev(Rev)
    /\ etcdPc' = "built"
    /\ UNCHANGED <<consulVars, k8sVars, backend, regVars, readVars, etcdLog, compactRev, startRev, streamRev, etcdCtxDone>>

\* ------------------------------------------------------------------ Watcher
\* "only forward": the cursor after a response whose header carries headerRev
advanceRev(cur, headerRev) ==
    IF headerRev > 0 /\ headerRev + 1 > cur THEN headerRev + 1 ELSE cur

\* (variant for comparison: an event whose value does not decode ends the batch)
RECURSIVE applyEventsStopAtBad(_, _, _)
applyEventsStopAtBad(idx, from, to) ==
    IF from > to THEN idx
    ELSE LET e == etcdLog[from]
         IN IF Unmarshal(IF e.type = "DELETE" THEN e.prevKv ELSE e.kv).err THEN idx
            ELSE applyEventsStopAtBad(IF UnderPrefix(e.key) THEN adapter(idx, e) ELSE idx,
                                      from + 1, to)

RECURSIVE applyEvents(_, _, _)
applyEvents(idx, from, to) ==
    IF from > to THEN idx
    ELSE applyEvents(IF UnderPrefix(etcdLog[from].key) THEN adapter(idx, etcdLog[from]) ELSE idx,
                     from + 1, to)

\* Watcher is called: startRev := s.watchRev
EtcdWatcher ==
    /\ backend = "etcd"
    /\ etcdPc = "built"
    /\ startRev' = watchRev
    /\ etcdPc' = "top"
    /\ UNCHANGED <<consulVars, k8sVars, backend, regVars, readVars, etcdLog, compactRev, etcdService, etcdMethod, watchRev,
                   streamRev, etcdCtxDone>>

\* top of the loop, ctx alive: client.Watch(..., WithRev(startRev))
EtcdWatchOpen ==
    /\ backend = "etcd"
    /\ etcdPc = "top"
    /\ ~etcdCtxDone
    /\ streamRev' = startRev
    /\ etcdPc' = "recv"
    /\ UNCHANGED <<consulVars, k8sVars, backend, regVars, readVars, etcdLog, compactRev, etcdService, etcdMethod, watchRev,
                   startRev, etcdCtxDone>>

\* a normal response: the events of revisions streamRev..h.  Its header carries
\* the store's revision at the time it is sent: h for a stream that is up to
\* date, a later one for a stream that is still catching up
EtcdWatchEvents(h) ==
    /\ backend = "etcd"
    /\ etcdPc = "recv"
    /\ ~etcdCtxDone
    /\ streamRev > compactRev
    /\ h >= streamRev
    /\ h <= Rev
    /\ \E headerRev \in h..Rev : startRev' = advanceRev(startRev, headerRev)
    /\ LET idx == applyEvents(Index(etcdService, etcdMethod), streamRev, h)
       IN /\ etcdService' = idx.service
          /\ etcdMethod' = idx.method
    /\ streamRev' = h + 1
    /\ UNCHANGED <<consulVars, k8sVars, backend, regVars, readVars, etcdLog, compactRev, watchRev, etcdPc, etcdCtxDone>>

\* a Canceled response without compaction; its header may carry any revision of
\* the store, or none
EtcdWatchCanceled(h) ==
    /\ backend = "etcd"
    /\ etcdPc = "recv"
    /\ ~etcdCtxDone
    /\ h \in 0..Rev
    /\ startRev' = advanceRev(startRev, h)
    /\ streamRev' = 0
    /\ etcdPc' = "restart"
    /\ UNCHANGED <<consulVars, k8sVars, backend, regVars, readVars, etcdLog, compactRev, etcdService, etcdMethod, watchRev,
                   etcdCtxDone>>

\* a Canceled response because the requested revision was compacted
EtcdWatchCompacted ==
    /\ backend = "etcd"
    /\ etcdPc = "recv"
    /\ ~etcdCtxDone
    /\ streamRev <= compactRev
    /\ startRev' = compactRev + 1
    /\ streamRev' = 0
    /\ etcdPc' = "restart"
    /\ UNCHANGED <<consulVars, k8sVars, backend, regVars, readVars, etcdLog, compactRev, etcdService, etcdMethod, watchRev,
                   etcdCtxDone>>

\* the watch channel is closed without a Canceled response
EtcdWatchClosed ==
    /\ backend = "etcd"
    /\ etcdPc = "recv"
    /\ ~etcdCtxDone
    /\ streamRev' = 0
    /\ etcdPc' = "restart"
    /\ UNCHANGED <<consulVars, k8sVars, backend, regVars, readVars, etcdLog, compactRev, etcdService, etcdMethod, watchRev,
                   startRev, etcdCtxDone>>

\* restart: the 200ms backoff timer fires
EtcdWatchBackoff ==
    /\ backend = "etcd"
    /\ etcdPc = "restart"
    /\ ~etcdCtxDone
    /\ etcdPc' = "top"
    /\ UNCHANGED <<consulVars, k8sVars, backend, regVars, readVars, etcdLog, compactRev, etcdService, etcdMethod, watchRev,
                   startRev, streamRev, etcdCtxDone>>

\* (variant for comparison: the context is looked at only at the top of the loop)
EtcdWatchReturnTopOnly ==
    /\ backend = "etcd"
    /\ etcdPc = "top"
    /\ etcdCtxDone
    /\ streamRev' = 0
    /\ etcdPc' = "returned"
    /\ UNCHANGED <<consulVars, k8sVars, backend, regVars, readVars, etcdLog, compactRev, etcdService, etcdMethod, watchRev,
                   startRev, etcdCtxDone>>

\* any point of the loop that selects on ctx.Done()
EtcdWatchReturn ==
    /\ backend = "etcd"
    /\ etcdPc \in {"top", "recv", "restart"}
    /\ etcdCtxDone
    /\ streamRev' = 0
    /\ etcdPc' = "returned"
    /\ UNCHANGED <<consulVars, k8sVars, backend, regVars, readVars, etcdLog, compactRev, etcdService, etcdMethod, watchRev,
                   startRev, etcdCtxDone>>

EtcdUnwatch ==
    /\ backend = "etcd"
    /\ etcdPc # "new"
    /\ etcdCtxDone' = TRUE
    /\ UNCHANGED <<consulVars, k8sVars, backend, regVars, readVars, etcdLog, compactRev, etcdService, etcdMethod, watchRev,
                   startRev, streamRev, etcdPc>>

EtcdInit ==
    /\ etcdLog = <<>>
    /\ compactRev = 0
    /\ etcdService = EmptyMap
    /\ etcdMethod = EmptyMap
    /\ watchRev = 0
    /\ startRev = 0
    /\ streamRev = 0
    /\ etcdPc = "new"
    /\ etcdCtxDone = FALSE

EtcdNext ==
    \/ backend = "etcd" /\ \E k \in EtcdKeys : \E v \in EtcdValues(k) : EtcdPut(k, v)
    \/ backend = "etcd" /\ \E k \in EtcdKeys : EtcdDelete(k)
    \/ EtcdNewDiscover
    \/ EtcdWatcher
    \/ EtcdWatchOpen
    \/ backend = "etcd" /\ \E h \in 1..MaxRev : EtcdWatchEvents(h)
    \/ backend = "etcd" /\ \E h \in 0..MaxRev : EtcdWatchCanceled(h)
    \/ EtcdWatchClosed
    \/ EtcdWatchBackoff
    \/ EtcdWatchReturn
    \/ EtcdUnwatch


\* =================================================== Consul Discovery Cache
\* one *api.ServiceEntry of a health snapshot:
\*   isNil    entry == nil or entry.Service == nil
\*   metaNil  entry.Service.Meta == nil
\*   hasEnv / env     Meta["env"]
\*   hasNode / raw    Meta["node"]; rawEmpty: the value is ""
Entry(isNil, metaNil, hasEnv, env, hasNode, rawEmpty, raw) ==
    [isNil |-> isNil, metaNil |-> metaNil, hasEnv |-> hasEnv, env |-> env,
     hasNode |-> hasNode, rawEmpty |-> rawEmpty, raw |-> raw]
\* what RegisterInstance.register writes for a node
RegisteredEntry(node) == Entry(FALSE, FALSE, TRUE, node.env, TRUE, FALSE, Marshal(node))
ConsulNodes ==
    {Node("a", CacheEnv, 1, {"X", "Y"}, Format(0)), Node("a", CacheEnv, 1, {"X"}, Format(0)),
     Node("a", CacheEnv, 2, {"X"}, Format(0)), Node("b", CacheEnv, 1, {"X"}, Format(0)),
     Node("b", CacheEnv, 2, {"X", "Y"}, Format(0))}
ConsulEntries ==
    {RegisteredEntry(node) : node \in ConsulNodes}
    \cup {RegisteredEntry(Node("a", "dev", 1, {"X"}, Format(0))),
          Entry(FALSE, FALSE, FALSE, "", TRUE, FALSE, Marshal(Node("a", CacheEnv, 1, {"X"}, Format(0)))),
          Entry(TRUE, TRUE, FALSE, "", FALSE, FALSE, NotJson),
          Entry(FALSE, TRUE, FALSE, "", FALSE, FALSE, NotJson),
          Entry(FALSE, FALSE, TRUE, CacheEnv, FALSE, FALSE, NotJson),
          Entry(FALSE, FALSE, TRUE, CacheEnv, TRUE, TRUE, NotJson),
          Entry(FALSE, FALSE, TRUE, CacheEnv, TRUE, FALSE, NotJson),
          Entry(FALSE, FALSE, TRUE, CacheEnv, TRUE, FALSE, Marshal(Node("", CacheEnv, 1, {"X"}, Format(0)))),
          Entry(FALSE, FALSE, TRUE, CacheEnv, TRUE, FALSE, Marshal(Node("a", "", 1, {"X"}, Format(0)))),
          Entry(FALSE, FALSE, TRUE, CacheEnv, TRUE, FALSE,
                Marshal([Node("a", CacheEnv, 1, {"X"}, Format(0)) EXCEPT !.metaNil = TRUE]))}
Snapshots == UNION {[1..n -> ConsulEntries] : n \in 0..MaxEntries}
\* the X-Consul-Index values a response may carry (0: none)
LastIndexes == {0, 1, 2}

\* rebuild, first step: an entry that passes every filter is appended to its appId
consulKeep(entry) ==
    /\ ~entry.isNil
    /\ ~entry.metaNil
    /\ entry.hasEnv /\ entry.env = CacheEnv
    /\ entry.hasNode /\ ~entry.rawEmpty
    /\ ~Unmarshal(entry.raw).err
    /\ ~MetaInvalid(Unmarshal(entry.raw).val)

RECURSIVE consulNextService(_, _, _)
consulNextService(svc, entries, i) ==
    IF i > Len(entries) THEN svc
    ELSE IF ~consulKeep(entries[i]) THEN consulNextService(svc, entries, i + 1)
    ELSE LET node == Unmarshal(entries[i].raw).val
         IN consulNextService(
                MapSet(svc, node.appId, Append(MapGetSlice(svc, node.appId), node)),
                entries, i + 1)

\* nextMethod derived from the first node of every appId only
nextMethodFirstNode(mth, svc, order, i) ==
    [sm \in UNION {svc[appId][1].methods : appId \in DOMAIN svc} |->
        CHOOSE appId \in DOMAIN svc : sm \in svc[appId][1].methods]

\* rebuild, second step: range over nextService in the map's iteration order
\* `order`, assigning every method of every node to the appId being visited
RECURSIVE nextMethod(_, _, _, _)
nextMethod(mth, svc, order, i) ==
    IF i > Len(order) THEN mth
    ELSE LET appId == order[i]
             served == UNION {svc[appId][j].methods : j \in 1..Len(svc[appId])}
         IN nextMethod([sm \in (DOMAIN mth) \cup served |->
                            IF sm \in served THEN appId ELSE mth[sm]],
                       svc, order, i + 1)

\* the orders in which a Go map with key set S may be ranged over
IterationOrders(S) ==
    {o \in [1..Cardinality(S) -> S] : \A i, j \in 1..Cardinality(S) : o[i] = o[j] => i = j}

consulRebuild(entries, order) ==
    LET svc == consulNextService(EmptyMap, entries, 1)
    IN Index(svc, nextMethod(EmptyMap, svc, order, 1))

\* what a rebuild from `entries` may publish
consulRebuilds(entries) ==
    {consulRebuild(entries, order) :
        order \in IterationOrders(DOMAIN consulNextService(EmptyMap, entries, 1))}

\* every index a rebuild may publish, over the snapshots the backend may return
RebuildOutcomes == UNION {consulRebuilds(entries) : entries \in Snapshots}

\* GetService of the Consul instance
consulGetService(idx, sm) ==
    IF sm \notin DOMAIN idx.method
    THEN [err |-> "ErrServiceMethodNotExists", nodes |-> <<>>]
    ELSE IF idx.method[sm] \notin DOMAIN idx.service
    THEN [err |-> "ErrServiceNodeNotExists", nodes |-> <<>>]
    ELSE [err |-> "nil", nodes |-> idx.service[idx.method[sm]]]

\* the cursor after a response that carries lastIndex
nextWaitIndex(cur, lastIndex) == IF lastIndex # 0 THEN lastIndex ELSE cur

\* NewDiscover: bootstrap reads one snapshot and publishes its rebuild idx
ConsulNewDiscover(idx, lastIndex) ==
    /\ backend = "consul"
    /\ consulPc = "new"
    /\ waitIndex' = nextWaitIndex(waitIndex, lastIndex)
    /\ consulService' = idx.service
    /\ consulMethod' = idx.method
    /\ consulPc' = "loop"
    /\ UNCHANGED <<backend, regVars, readVars, etcdVars, k8sVars, consulCtxDone, healthEntries>>

\* Watcher, one iteration: the blocking query answers with a snapshot, whose
\* rebuild idx is published
ConsulWatchQuery(idx, lastIndex) ==
    /\ backend = "consul"
    /\ consulPc = "loop"
    /\ ~consulCtxDone
    /\ waitIndex' = nextWaitIndex(waitIndex, lastIndex)
    /\ consulService' = idx.service
    /\ consulMethod' = idx.method
    /\ UNCHANGED <<backend, regVars, readVars, etcdVars, k8sVars, consulPc, consulCtxDone, healthEntries>>

\* Watcher, one iteration: the query fails while ctx is alive
ConsulWatchError ==
    /\ backend = "consul"
    /\ consulPc = "loop"
    /\ ~consulCtxDone
    /\ consulPc' = "backoff"
    /\ UNCHANGED <<backend, regVars, readVars, etcdVars, k8sVars, consulService, consulMethod, waitIndex, consulCtxDone,
                   healthEntries>>

\* the 200ms backoff timer fires
ConsulWatchBackoff ==
    /\ backend = "consul"
    /\ consulPc = "backoff"
    /\ ~consulCtxDone
    /\ consulPc' = "loop"
    /\ UNCHANGED <<backend, regVars, readVars, etcdVars, k8sVars, consulService, consulMethod, waitIndex, consulCtxDone,
                   healthEntries>>

\* ctx.Done() observed at the loop top, in the failed query or in the backoff
ConsulWatchReturn ==
    /\ backend = "consul"
    /\ consulPc \in {"loop", "backoff"}
    /\ consulCtxDone
    /\ consulPc' = "returned"
    /\ UNCHANGED <<backend, regVars, readVars, etcdVars, k8sVars, consulService, consulMethod, waitIndex, consulCtxDone,
                   healthEntries>>

\* bootstrap / one Watcher iteration with the snapshot kept: Health().Service
\* answers with `entries`, the cursor is updated, rebuild(entries) is published
ConsulRebuildFrom(entries, lastIndex) ==
    /\ backend = "consul"
    /\ consulPc \in {"new", "loop"}
    /\ ~consulCtxDone
    /\ healthEntries' = entries
    /\ waitIndex' = nextWaitIndex(waitIndex, lastIndex)
    /\ \E idx \in consulRebuilds(entries) :
           /\ consulService' = idx.service
           /\ consulMethod' = idx.method
    /\ consulPc' = "loop"
    /\ UNCHANGED <<backend, regVars, readVars, etcdVars, k8sVars, consulCtxDone>>

ConsulUnwatch ==
    /\ backend = "consul"
    /\ consulPc # "new"
    /\ consulCtxDone' = TRUE
    /\ UNCHANGED <<backend, regVars, readVars, etcdVars, k8sVars, consulService, consulMethod, waitIndex, consulPc,
                   healthEntries>>

ConsulInit ==
    /\ consulService = EmptyMap
    /\ consulMethod = EmptyMap
    /\ waitIndex = 0
    /\ consulPc = "new"
    /\ consulCtxDone = FALSE
    /\ healthEntries = <<>>

ConsulNext ==
    \/ backend = "consul" /\ \E idx \in RebuildOutcomes : \E li \in LastIndexes :
           ConsulNewDiscover(idx, li)
    \/ backend = "consul" /\ \E idx \in RebuildOutcomes : \E li \in LastIndexes :
           ConsulWatchQuery(idx, li)
    \/ ConsulWatchError
    \/ ConsulWatchBackoff
    \/ ConsulWatchReturn
    \/ ConsulUnwatch

\* =============================================== Kubernetes Discovery Cache
\* conf.TTL after ServiceConf.Bootstrap, in seconds
TTL == 10
\* the clock is read at multiples of TTL, MaxTicks of them
MaxTicks == 2
\* number of writes the ConfigMap goes through
MaxRV == 3

\* data keys: dataKey() of three sessions, and one key written by someone else
CmKeySeq == <<<<"a", 1>>, <<"a", 2>>, <<"b", 1>>, JunkKey>>
CmKeys == {CmKeySeq[i] : i \in 1..Len(CmKeySeq)}
SessionMethods(k) == IF k = <<"a", 1>> THEN {"X", "Y"} ELSE {"X"}
\* the node a session of key k holds at time t (Install / SustainLease set RunDate)
lastNode(k, t) == Node(k[1], CacheEnv, k[2], SessionMethods(k), Format(t))
\* what may be stored under a key at time t
CmValues(k, t) ==
    IF k = JunkKey
    THEN {NotJson,
          Marshal(Node("a", "dev", 3, {"X"}, Format(t))),
          Marshal(Node("a", CacheEnv, 3, {"X"}, EmptyString)),
          Marshal(Node("a", CacheEnv, 3, {"X"}, NoDateTime))}
    ELSE {Marshal(lastNode(k, t))}

\* upsertDataKey, when its Update succeeds: the ConfigMap is created if missing
upsertDataKey(k, v) ==
    /\ backend = "kubernetes"
    /\ cmRV < MaxRV
    /\ cmExists' = TRUE
    /\ cmData' = MapSet(cmData, k, v)
    /\ cmRV' = cmRV + 1
    /\ UNCHANGED <<backend, regVars, readVars, etcdVars, consulVars, now, k8sService, k8sMethod,
                   resourceVersion, k8sPc, k8sCtxDone, pollResult>>

\* a write to a store that assigns no resourceVersion (the fake clientset of
\* the tests): the ConfigMap it returns carries the empty one
upsertUnversioned(k, v) ==
    /\ backend = "kubernetes"
    /\ cmRV = 0
    /\ cmExists' = TRUE
    /\ cmData' = MapSet(cmData, k, v)
    /\ UNCHANGED <<backend, regVars, readVars, etcdVars, consulVars, now, cmRV, k8sService,
                   k8sMethod, resourceVersion, k8sPc, k8sCtxDone, pollResult>>

\* deleteDataKey, when the key is there and its Update succeeds
deleteDataKey(k) ==
    /\ backend = "kubernetes"
    /\ cmRV < MaxRV
    /\ cmExists
    /\ k \in DOMAIN cmData
    /\ cmData' = MapDelete(cmData, k)
    /\ cmRV' = cmRV + 1
    /\ UNCHANGED <<backend, regVars, readVars, etcdVars, consulVars, now, cmExists, k8sService, k8sMethod,
                   resourceVersion, k8sPc, k8sCtxDone, pollResult>>

\* the ConfigMap is deleted from the cluster
CmDelete ==
    /\ backend = "kubernetes"
    /\ cmExists
    /\ cmExists' = FALSE
    /\ cmData' = EmptyMap
    /\ UNCHANGED <<backend, regVars, readVars, etcdVars, consulVars, now, cmRV, k8sService, k8sMethod,
                   resourceVersion, k8sPc, k8sCtxDone, pollResult>>

\* time passes
Tick ==
    /\ backend = "kubernetes"
    /\ now < MaxTicks * TTL
    /\ now' = now + TTL
    /\ pollResult' = "none"
    /\ UNCHANGED <<backend, regVars, readVars, etcdVars, consulVars, cmExists, cmData, cmRV, k8sService,
                   k8sMethod, resourceVersion, k8sPc, k8sCtxDone>>

\* rebuild, the filters of the first loop
k8sKeep(raw, t) ==
    LET u == Unmarshal(raw)
        node == u.val
        parsedRunDate == ParseInLocation(node.runDate)
        staleAfter == TTL
    IN /\ ~u.err
       /\ ~(node.metaNil \/ node.appId = "" \/ node.env = "" \/ node.runDate = EmptyString)
       /\ node.env = CacheEnv
       /\ ~parsedRunDate.err
       /\ ~(staleAfter > 0 /\ t - parsedRunDate.t > staleAfter)

\* rebuild, first loop: range over cm.Data in the iteration order `order`
RECURSIVE k8sNextService(_, _, _, _, _)
k8sNextService(svc, data, order, i, t) ==
    IF i > Len(order) THEN svc
    ELSE IF ~k8sKeep(data[order[i]], t) THEN k8sNextService(svc, data, order, i + 1, t)
    ELSE LET node == Unmarshal(data[order[i]]).val
         IN k8sNextService(
                MapSet(svc, node.appId, Append(MapGetSlice(svc, node.appId), node)),
                data, order, i + 1, t)

\* the less function handed to sort.Slice
less(ni, nj) ==
    LET li == ParseInLocation(ni.runDate)
        lj == ParseInLocation(nj.runDate)
    IN IF li.err /\ lj.err THEN ni.leaseId > nj.leaseId
       ELSE IF li.err THEN FALSE
       ELSE IF lj.err THEN TRUE
       ELSE li.t > lj.t

\* sort.Slice on a slice of at most 12 elements is an insertion sort:
\* element i sinks towards the front while it is less than its predecessor
RECURSIVE sink(_, _)
sink(nodes, j) ==
    IF j > 1 /\ less(nodes[j], nodes[j - 1])
    THEN sink([nodes EXCEPT ![j] = nodes[j - 1], ![j - 1] = nodes[j]], j - 1)
    ELSE nodes

RECURSIVE insertionSort(_, _)
insertionSort(nodes, i) ==
    IF i > Len(nodes) THEN nodes ELSE insertionSort(sink(nodes, i), i + 1)

\* a sort that leaves the slice in append order
sortSliceNone(nodes) == nodes

sortSlice(nodes) == insertionSort(nodes, 2)

\* rebuild, third loop: derive nextMethod from nextService, ranging over it in `order`
RECURSIVE k8sNextMethod(_, _, _, _)
k8sNextMethod(mth, svc, order, i) ==
    IF i > Len(order) THEN mth
    ELSE LET appId == order[i]
             served == UNION {svc[appId][j].methods : j \in 1..Len(svc[appId])}
         IN k8sNextMethod([sm \in (DOMAIN mth) \cup served |->
                               IF sm \in served THEN appId ELSE mth[sm]],
                          svc, order, i + 1)

k8sRebuild(data, dataOrder, appOrder, t) ==
    LET appended == k8sNextService(EmptyMap, data, dataOrder, 1, t)
        svc == [appId \in DOMAIN appended |-> sortSlice(appended[appId])]
    IN Index(svc, k8sNextMethod(EmptyMap, svc, appOrder, 1))

\* what a rebuild from `data` at time t may publish
k8sRebuilds(data, t) ==
    UNION {{k8sRebuild(data, dataOrder, appOrder, t) :
               appOrder \in IterationOrders(DOMAIN k8sNextService(EmptyMap, data, dataOrder, 1, t))} :
           dataOrder \in IterationOrders(DOMAIN data)}

\* GetService of the Kubernetes instance
k8sGetService(idx, sm) ==
    IF sm \notin DOMAIN idx.method
    THEN [err |-> "ErrServiceMethodNotExists", nodes |-> <<>>]
    ELSE IF idx.method[sm] \notin DOMAIN idx.service
    THEN [err |-> "ErrServiceNodeNotExists", nodes |-> <<>>]
    ELSE [err |-> "nil", nodes |-> idx.service[idx.method[sm]]]

\* NewDiscover: bootstrap gets the ConfigMap; NotFound leaves an empty index
K8sNewDiscover ==
    /\ backend = "kubernetes"
    /\ k8sPc = "new"
    /\ k8sPc' = "built"
    /\ IF ~cmExists
       THEN /\ k8sService' = EmptyMap
            /\ k8sMethod' = EmptyMap
            /\ resourceVersion' = 0
       ELSE /\ \E idx \in k8sRebuilds(cmData, now) :
                  /\ k8sService' = idx.service
                  /\ k8sMethod' = idx.method
            /\ resourceVersion' = cmRV
    /\ UNCHANGED <<backend, regVars, readVars, etcdVars, consulVars, now, cmExists, cmData, cmRV, k8sCtxDone,
                   pollResult>>

\* NewDiscover when the Get of bootstrap fails otherwise: no instance is returned
K8sNewDiscoverError ==
    /\ backend = "kubernetes"
    /\ k8sPc = "new"
    /\ k8sPc' = "failed"
    /\ UNCHANGED <<backend, regVars, readVars, etcdVars, consulVars, now, cmExists, cmData, cmRV, k8sService,
                   k8sMethod, resourceVersion, k8sCtxDone, pollResult>>

\* Watcher is started and creates its ticker
K8sWatcher ==
    /\ backend = "kubernetes"
    /\ k8sPc = "built"
    /\ k8sPc' = "select"
    /\ UNCHANGED <<backend, regVars, readVars, etcdVars, consulVars, now, cmExists, cmData, cmRV, k8sService,
                   k8sMethod, resourceVersion, k8sCtxDone, pollResult>>

\* a poll that takes every non-empty resourceVersion for the one it has
pullSkipsAnyVersion ==
    /\ backend = "kubernetes"
    /\ k8sPc = "select"
    /\ ~k8sCtxDone
    /\ IF ~cmExists
       THEN /\ k8sService' = EmptyMap
            /\ k8sMethod' = EmptyMap
            /\ resourceVersion' = 0
            /\ pollResult' = "reset"
       ELSE /\ pollResult' = "skipped"
            /\ UNCHANGED <<k8sService, k8sMethod, resourceVersion>>
    /\ UNCHANGED <<backend, regVars, readVars, etcdVars, consulVars, now, cmExists, cmData, cmRV, k8sPc,
                   k8sCtxDone>>

\* Watcher, ticker case: pullAndRebuildIfChanged returns nil
pullAndRebuildIfChanged ==
    /\ backend = "kubernetes"
    /\ k8sPc = "select"
    /\ ~k8sCtxDone
    /\ IF ~cmExists
       THEN /\ k8sService' = EmptyMap
            /\ k8sMethod' = EmptyMap
            /\ resourceVersion' = 0
            /\ pollResult' = "reset"
       ELSE IF cmRV # 0 /\ cmRV = resourceVersion
       THEN /\ pollResult' = "skipped"
            /\ UNCHANGED <<k8sService, k8sMethod, resourceVersion>>
       ELSE /\ \E idx \in k8sRebuilds(cmData, now) :
                  /\ k8sService' = idx.service
                  /\ k8sMethod' = idx.method
            /\ resourceVersion' = cmRV
            /\ pollResult' = "rebuilt"
    /\ UNCHANGED <<backend, regVars, readVars, etcdVars, consulVars, now, cmExists, cmData, cmRV, k8sPc,
                   k8sCtxDone>>

\* a failed Get that is handled like NotFound
K8sPollErrorResets ==
    /\ backend = "kubernetes"
    /\ k8sPc = "select"
    /\ k8sPc' = "backoff"
    /\ k8sService' = EmptyMap
    /\ k8sMethod' = EmptyMap
    /\ resourceVersion' = 0
    /\ UNCHANGED <<backend, regVars, readVars, etcdVars, consulVars, now, cmExists, cmData, cmRV,
                   k8sCtxDone, pollResult>>

\* Watcher, ticker case: the Get fails (also: the context is cancelled); back off
K8sPollError ==
    /\ backend = "kubernetes"
    /\ k8sPc = "select"
    /\ k8sPc' = "backoff"
    /\ UNCHANGED <<backend, regVars, readVars, etcdVars, consulVars, now, cmExists, cmData, cmRV, k8sService,
                   k8sMethod, resourceVersion, k8sCtxDone, pollResult>>

\* the 200ms timer of the back-off fires
K8sBackoff ==
    /\ backend = "kubernetes"
    /\ k8sPc = "backoff"
    /\ k8sPc' = "select"
    /\ UNCHANGED <<backend, regVars, readVars, etcdVars, consulVars, now, cmExists, cmData, cmRV, k8sService,
                   k8sMethod, resourceVersion, k8sCtxDone, pollResult>>

\* Watcher returns once the context is cancelled
K8sWatchReturn ==
    /\ backend = "kubernetes"
    /\ k8sPc \in {"select", "backoff"}
    /\ k8sCtxDone
    /\ k8sPc' = "returned"
    /\ UNCHANGED <<backend, regVars, readVars, etcdVars, consulVars, now, cmExists, cmData, cmRV, k8sService,
                   k8sMethod, resourceVersion, k8sCtxDone, pollResult>>

\* Unwatch cancels the context
K8sUnwatch ==
    /\ backend = "kubernetes"
    /\ k8sPc \notin {"new", "failed"}
    /\ k8sCtxDone' = TRUE
    /\ UNCHANGED <<backend, regVars, readVars, etcdVars, consulVars, now, cmExists, cmData, cmRV, k8sService,
                   k8sMethod, resourceVersion, k8sPc, pollResult>>

K8sInit ==
    /\ now = 0
    /\ cmExists = FALSE
    /\ cmData = EmptyMap
    /\ cmRV = 0
    /\ k8sService = EmptyMap
    /\ k8sMethod = EmptyMap
    /\ resourceVersion = 0
    /\ k8sPc = "new"
    /\ k8sCtxDone = FALSE
    /\ pollResult = "none"

K8sNext ==
    \/ backend = "kubernetes" /\ \E k \in CmKeys : \E v \in CmValues(k, now) : upsertDataKey(k, v)
    \/ backend = "kubernetes" /\ \E k \in CmKeys : deleteDataKey(k)
    \/ CmDelete
    \/ Tick
    \/ K8sNewDiscover
    \/ K8sNewDiscoverError
    \/ K8sWatcher
    \/ pullAndRebuildIfChanged
    \/ K8sPollError
    \/ K8sBackoff
    \/ K8sWatchReturn
    \/ K8sUnwatch


\* ==================================== GetService beside the Watcher (all adapters)
\* no GetService call is running and the lock is free
ReadInit ==
    /\ mu = "free"
    /\ pending = "none"
    /\ getPc = "idle"
    /\ getSm = ""
    /\ getApp = ""
    /\ getOut = [err |-> "none", nodes |-> <<>>]
    /\ getView = [idx |-> Index(EmptyMap, EmptyMap), mid |-> FALSE]

\* the instance of the behaviour's adapter has been returned by NewDiscover
Built ==
    CASE backend = "etcd" -> etcdPc # "new"
      [] backend = "consul" -> consulPc # "new"
      [] OTHER -> k8sPc \notin {"new", "failed"}
\* s.service and s.method of that instance, as they are in memory right now
CurIndex ==
    CASE backend = "etcd" -> Index(etcdService, etcdMethod)
      [] backend = "consul" -> Index(consulService, consulMethod)
      [] OTHER -> Index(k8sService, k8sMethod)

\* GetService(sm): s.mu.RLock()
GetServiceRLock(sm) ==
    /\ Built
    /\ getPc \in {"idle", "done"}
    /\ mu = "free"
    /\ mu' = "R"
    /\ getPc' = "locked"
    /\ getSm' = sm
    /\ getView' = [idx |-> CurIndex, mid |-> pending # "none"]
    /\ UNCHANGED <<backend, etcdVars, consulVars, k8sVars, regVars, pending, getApp, getOut>>

\* GetService: appId, ok := s.method[sm]
GetServiceMethod ==
    /\ getPc = "locked"
    /\ IF getSm \notin DOMAIN CurIndex.method
       THEN /\ getOut' = [err |-> "ErrServiceMethodNotExists", nodes |-> <<>>]
            /\ mu' = "free"
            /\ getPc' = "done"
            /\ UNCHANGED getApp
       ELSE /\ getApp' = CurIndex.method[getSm]
            /\ getPc' = "found"
            /\ UNCHANGED <<getOut, mu>>
    /\ UNCHANGED <<backend, etcdVars, consulVars, k8sVars, regVars, pending, getSm, getView>>

\* GetService: nodes, ok := s.service[appId]; copy; s.mu.RUnlock()
GetServiceNodes ==
    /\ getPc = "found"
    /\ getOut' = IF getApp \notin DOMAIN CurIndex.service
                 THEN [err |-> "ErrServiceNodeNotExists", nodes |-> <<>>]
                 ELSE [err |-> "nil", nodes |-> CurIndex.service[getApp]]
    /\ mu' = "free"
    /\ getPc' = "done"
    /\ UNCHANGED <<backend, etcdVars, consulVars, k8sVars, regVars, pending, getSm, getApp, getView>>

\* etcd Watcher, a response that delivers the event of revision streamRev:
\* adapter decodes it; an event it skips is done with, otherwise adapter takes
\* s.mu.Lock() and upsertNodeLocked / deleteNodeLocked assign s.service[appId]
adapterLock ==
    /\ backend = "etcd"
    /\ etcdPc = "recv"
    /\ ~etcdCtxDone
    /\ streamRev > compactRev
    /\ streamRev <= Rev
    /\ \E headerRev \in streamRev..Rev : startRev' = advanceRev(startRev, headerRev)
    /\ LET e == etcdLog[streamRev]
           tv == IF e.type = "DELETE" THEN e.prevKv ELSE e.kv
           skipped == \/ ~UnderPrefix(e.key)
                      \/ e.type = "DELETE" /\ ~e.hasPrevKv
                      \/ e.type # "DELETE" /\ ~e.hasKv
                      \/ Unmarshal(tv).err
                      \/ MetaInvalid(Unmarshal(tv).val)
       IN IF skipped
          THEN /\ streamRev' = streamRev + 1
               /\ UNCHANGED <<etcdService, mu, pending>>
          ELSE /\ mu = "free"
               /\ mu' = "W"
               /\ etcdService' = adapter(Index(etcdService, etcdMethod), e).service
               /\ pending' = Unmarshal(tv).val.appId
               /\ UNCHANGED streamRev
    /\ UNCHANGED <<backend, consulVars, k8sVars, regVars, etcdLog, compactRev, etcdMethod, watchRev,
                   etcdPc, etcdCtxDone, getPc, getSm, getApp, getOut, getView>>

\* ... refreshMethodsLocked(appId) recomputes the appId's entries of s.method;
\* s.mu.Unlock()
adapterUnlock ==
    /\ backend = "etcd"
    /\ mu = "W"
    /\ etcdMethod' = refreshMethodsLocked(Index(etcdService, etcdMethod), pending).method
    /\ mu' = "free"
    /\ pending' = "none"
    /\ streamRev' = streamRev + 1
    /\ UNCHANGED <<backend, consulVars, k8sVars, regVars, etcdLog, compactRev, etcdService, watchRev,
                   startRev, etcdPc, etcdCtxDone, getPc, getSm, getApp, getOut, getView>>

\* Consul / Kubernetes Watcher: a query or a poll has fetched a changed
\* snapshot, rebuild has built nextService / nextMethod (idx); s.mu.Lock();
\* s.service = nextService
rebuildLock(idx, lastIndex) ==
    /\ mu = "free"
    /\ mu' = "W"
    /\ pending' = idx.method
    /\ IF backend = "consul"
       THEN /\ consulPc = "loop"
            /\ ~consulCtxDone
            /\ idx \in RebuildOutcomes
            /\ waitIndex' = nextWaitIndex(waitIndex, lastIndex)
            /\ consulService' = idx.service
            /\ UNCHANGED <<consulMethod, consulPc, consulCtxDone, healthEntries, k8sVars>>
       ELSE /\ backend = "kubernetes"
            /\ k8sPc = "select"
            /\ ~k8sCtxDone
            /\ cmExists
            /\ ~(cmRV # 0 /\ cmRV = resourceVersion)
            /\ idx \in k8sRebuilds(cmData, now)
            /\ k8sService' = idx.service
            /\ UNCHANGED <<now, cmExists, cmData, cmRV, k8sMethod, resourceVersion, k8sPc,
                           k8sCtxDone, pollResult, consulVars>>
    /\ UNCHANGED <<backend, etcdVars, regVars, getPc, getSm, getApp, getOut, getView>>

\* ... s.method = nextMethod (Kubernetes: s.resourceVersion as well); s.mu.Unlock()
rebuildUnlock ==
    /\ mu = "W"
    /\ mu' = "free"
    /\ pending' = "none"
    /\ IF backend = "consul"
       THEN /\ consulMethod' = pending
            /\ UNCHANGED <<consulService, waitIndex, consulPc, consulCtxDone, healthEntries, k8sVars>>
       ELSE /\ backend = "kubernetes"
            /\ k8sMethod' = pending
            /\ resourceVersion' = cmRV
            /\ pollResult' = "rebuilt"
            /\ UNCHANGED <<now, cmExists, cmData, cmRV, k8sService, k8sPc, k8sCtxDone, consulVars>>
    /\ UNCHANGED <<backend, etcdVars, regVars, getPc, getSm, getApp, getOut, getView>>

\* the sessions a/1 and b/1, which serve the same method
ReadKeys == {<<"a", 1>>, <<"b", 1>>}
\* a Discovery Cache of either adapter, its Watcher applying one update after
\* the other, and GetService calls made beside it
ReadNext ==
    \/ backend = "etcd" /\ \E k \in ReadKeys : \E v \in EtcdValues(k) : EtcdPut(k, v)
    \/ backend = "etcd" /\ \E k \in ReadKeys : EtcdDelete(k)
    \/ EtcdNewDiscover
    \/ EtcdWatcher
    \/ EtcdWatchOpen
    \/ adapterLock
    \/ adapterUnlock
    \/ backend = "consul" /\ \E idx \in RebuildOutcomes : \E li \in LastIndexes :
           ConsulNewDiscover(idx, li)
    \/ backend = "kubernetes" /\ \E k \in ReadKeys : \E v \in CmValues(k, now) : upsertDataKey(k, v)
    \/ backend = "kubernetes" /\ \E k \in ReadKeys : deleteDataKey(k)
    \/ K8sNewDiscover
    \/ K8sWatcher
    \/ backend = "consul" /\ mu = "free" /\ \E idx \in RebuildOutcomes : \E li \in LastIndexes :
           rebuildLock(idx, li)
    \/ backend = "kubernetes" /\ mu = "free" /\ \E idx \in k8sRebuilds(cmData, now) :
           rebuildLock(idx, 0)
    \/ rebuildUnlock
    \/ Built /\ \E sm \in MethodNames : GetServiceRLock(sm)
    \/ GetServiceMethod
    \/ GetServiceNodes

\* ==================================================== Registration Sessions
\* RegisterInstance of the three adapters.  The session owns one registration
\* of the backend; its SustainLease loop runs beside the caller's Install and
\* Uninstall.  A backend call is one step; a call that carries a context
\* derived from s.ctx fails once s.ctx is cancelled.

\* constant.DefaultMaxRetry (constant.DefaultTTL is TTL)
DefaultMaxRetry == 3
\* how far above the floors the configured values of the model reach
ConfSpan == 3
\* hook and loss counters count up to this value and then stay
MaxCount == 3

\* (variant for comparison: the configured values are taken as they are)
BootstrapNoFloor(sc) == sc
\* ServiceConf.Bootstrap: raise MaxRetry and TTL to their floors
Bootstrap(sc) ==
    LET r == IF sc.maxRetry < DefaultMaxRetry
             THEN [sc EXCEPT !.maxRetry = DefaultMaxRetry] ELSE sc
    IN IF r.ttl < TTL THEN [r EXCEPT !.ttl = TTL] ELSE r

\* the configurations a caller may hand to NewRegister
ConfInputs ==
    [maxRetry : 0..(DefaultMaxRetry + ConfSpan), ttl : 0..(TTL + ConfSpan)]
ZeroConf == [maxRetry |-> 0, ttl |-> 0]
\* the *micro.Meta a caller may hand to NewRegister
RegMetas == [appId : {"", "a"}, env : {"", CacheEnv}]
\* the service node a caller hands to Install
RegServices == {"s1"}

MaxRetry == regConf.maxRetry
Bump(c) == IF c < MaxCount THEN c + 1 ELSE c
Wrote(by) == [by |-> by, tick |-> ~regWrite.tick]
discoverVars == <<etcdVars, consulVars, k8sVars, readVars>>
\* etcd and Kubernetes pass a context derived from s.ctx to the backend; the
\* Consul agent calls (ServiceRegister, UpdateTTL) take none
CtxBound == backend \in {"etcd", "kubernetes"}
\* Consul and Kubernetes Install reject an empty s.meta.AppId / s.meta.Env;
\* etcd Install has no such check
installValidates == backend \in {"consul", "kubernetes"}
MetaEmpty == regMeta.appId = "" \/ regMeta.env = ""
Constructed == regPc \notin {"off", "conf", "failed"}

\* NewRegister: conf.Bootstrap(), context, and (etcd) the first lease
NewRegister(ok) ==
    /\ regPc = "conf"
    /\ ok \/ backend = "etcd"
    /\ regConf' = Bootstrap(regConf)
    /\ IF backend = "etcd"
       THEN IF ok THEN regPc' = "new" /\ regWrite' = Wrote("NewRegister")
                  ELSE regPc' = "failed" /\ UNCHANGED regWrite
       ELSE regPc' = "new" /\ UNCHANGED regWrite
    /\ UNCHANGED <<backend, discoverVars, nodeVars, writeVars, regMeta, regCtxDone, retryCount, retryBefore,
                   retryAfter, lossCount, attemptCount, regLastNode, regStored, regResult, regRemoving>>

\* register: write s.lastNode under the session's key
registerOk(ok) == ok /\ (CtxBound => ~regCtxDone)

\* Install: stamp the node, remember it, write it
Install(service, ok) ==
    /\ Constructed
    /\ IF installValidates /\ MetaEmpty
       THEN /\ regResult' = "error"
            /\ UNCHANGED <<regLastNode, regStored, regWrite>>
       ELSE /\ regLastNode' = service
            /\ IF registerOk(ok)
               THEN /\ regStored' = service
                    /\ regWrite' = Wrote("Install")
                    /\ regResult' = "nil"
               ELSE /\ regResult' = "error"
                    /\ UNCHANGED <<regStored, regWrite>>
    /\ UNCHANGED <<backend, discoverVars, nodeVars, writeVars, regPc, regConf, regMeta, regCtxDone, retryCount,
                   retryBefore, retryAfter, lossCount, attemptCount, regRemoving>>

\* Uninstall, first half: s.cancel()
Uninstall ==
    /\ Constructed
    /\ ~regRemoving
    /\ regCtxDone' = TRUE
    /\ regRemoving' = TRUE
    /\ UNCHANGED <<backend, discoverVars, nodeVars, writeVars, regPc, regConf, regMeta, retryCount, retryBefore,
                   retryAfter, lossCount, attemptCount, regLastNode, regStored, regWrite, regResult>>

\* what Uninstall removes: etcd revokes the lease; Consul deregisters unless
\* serviceId is empty (no Install got past the checks); Kubernetes deletes the
\* data key unless s.meta.AppId is empty
uninstallRemoves ==
    CASE backend = "etcd" -> TRUE
      [] backend = "consul" -> regLastNode # "nil"
      [] OTHER -> regMeta.appId # ""

\* Uninstall, second half: the removal, under a context of its own
UninstallRemove(ok) ==
    /\ regRemoving
    /\ regRemoving' = FALSE
    /\ IF uninstallRemoves /\ ok
       THEN regStored' = "none" /\ regWrite' = Wrote("Uninstall")
       ELSE UNCHANGED <<regStored, regWrite>>
    /\ UNCHANGED <<backend, discoverVars, nodeVars, writeVars, regPc, regConf, regMeta, regCtxDone, retryCount,
                   retryBefore, retryAfter, lossCount, attemptCount, regLastNode, regResult>>

\* SustainLease is started
SustainLease ==
    /\ regPc = "new"
    /\ regPc' = "top"
    /\ UNCHANGED <<backend, discoverVars, nodeVars, writeVars, regConf, regMeta, regCtxDone, retryCount, retryBefore,
                   retryAfter, lossCount, attemptCount, regLastNode, regStored, regWrite, regResult,
                   regRemoving>>

\* SustainLease is called again on a session whose previous call has returned;
\* lossCount and attemptCount observe the new call from its start
SustainLeaseAgain ==
    /\ regPc = "returned"
    /\ regPc' = "top"
    /\ lossCount' = 0
    /\ attemptCount' = 0
    /\ UNCHANGED <<backend, discoverVars, nodeVars, writeVars, regConf, regMeta, regCtxDone, retryCount, retryBefore,
                   retryAfter, regLastNode, regStored, regWrite, regResult, regRemoving>>

\* etcd: the non-blocking ctx check passed; KeepAlive(s.ctx, s.lease) hands out
\* the channel, or fails
EtcdKeepAlive(ok) ==
    /\ backend = "etcd"
    /\ regPc = "top"
    /\ ~regCtxDone
    /\ regPc' = IF ok THEN "recv" ELSE "retry"
    /\ UNCHANGED <<backend, discoverVars, nodeVars, writeVars, regConf, regMeta, regCtxDone, retryCount, retryBefore,
                   retryAfter, lossCount, attemptCount, regLastNode, regStored, regWrite, regResult,
                   regRemoving>>

\* etcd: the keepalive channel is closed (the lease is lost, or s.ctx is done)
EtcdChannelClosed ==
    /\ backend = "etcd"
    /\ regPc = "recv"
    /\ regPc' = "retry"
    /\ lossCount' = Bump(lossCount)
    /\ UNCHANGED <<backend, discoverVars, nodeVars, writeVars, attemptCount, regConf, regMeta, regCtxDone, retryCount, retryBefore,
                   retryAfter, regLastNode, regStored, regWrite, regResult, regRemoving>>

\* Consul / Kubernetes: the select takes the ticker case (it may, even when
\* s.ctx is done as well)
SustainTick ==
    /\ backend \in {"consul", "kubernetes"}
    /\ regPc = "top"
    /\ regPc' = "beat"
    /\ UNCHANGED <<backend, discoverVars, nodeVars, writeVars, regConf, regMeta, regCtxDone, retryCount, retryBefore,
                   retryAfter, lossCount, attemptCount, regLastNode, regStored, regWrite, regResult,
                   regRemoving>>

\* Consul heartbeat(): UpdateTTL of the session's check (an error when checkId
\* is empty or the check is gone).  Kubernetes: register() of s.lastNode.
heartbeatOk(ok) ==
    IF backend = "consul"
    THEN regLastNode # "nil" /\ regStored # "none" /\ ok
    ELSE regLastNode = "nil" \/ registerOk(ok)

heartbeat(ok) ==
    /\ regPc = "beat"
    /\ IF heartbeatOk(ok)
       THEN /\ regPc' = "top"
            /\ retryCount' = 0
            /\ IF regLastNode = "nil"
               THEN UNCHANGED <<regStored, regWrite>>
               ELSE /\ regStored' = IF backend = "consul" THEN regStored ELSE regLastNode
                    /\ regWrite' = Wrote("SustainLease")
            /\ UNCHANGED lossCount
       ELSE /\ regPc' = "retry"
            /\ lossCount' = Bump(lossCount)
            /\ UNCHANGED <<retryCount, regStored, regWrite>>
    /\ UNCHANGED <<backend, discoverVars, nodeVars, writeVars, attemptCount, regConf, regMeta, regCtxDone, retryBefore,
                   retryAfter, regLastNode, regResult, regRemoving>>

\* (variant for comparison: the loop head without its condition)
retryBeginUnbounded ==
    /\ regPc = "retry"
    /\ retryBefore' = Bump(retryBefore)
    /\ regPc' = "wait"
    /\ UNCHANGED <<backend, discoverVars, nodeVars, writeVars, regConf, regMeta, regCtxDone, retryCount,
                   retryAfter, lossCount, attemptCount, regLastNode, regStored, regWrite, regResult,
                   regRemoving>>

\* retry loop, head: for s.retryCount < s.conf.MaxRetry { retryBefore() ...
retryBegin ==
    /\ regPc = "retry"
    /\ retryCount < MaxRetry
    /\ retryBefore' = Bump(retryBefore)
    /\ regPc' = "wait"
    /\ UNCHANGED <<backend, discoverVars, nodeVars, writeVars, regConf, regMeta, regCtxDone, retryCount,
                   retryAfter, lossCount, attemptCount, regLastNode, regStored, regWrite, regResult,
                   regRemoving>>

\* retry loop, exit: the loop condition fails, the retry returns false and
\* SustainLease returns
retryExhausted ==
    /\ regPc = "retry"
    /\ ~(retryCount < MaxRetry)
    /\ regPc' = "returned"
    /\ UNCHANGED <<backend, discoverVars, nodeVars, writeVars, regConf, regMeta, regCtxDone, retryCount, retryBefore,
                   retryAfter, lossCount, attemptCount, regLastNode, regStored, regWrite, regResult,
                   regRemoving>>

\* (variant for comparison: the counter is tested right after the increment)
retryTimerAbandon ==
    /\ regPc = "wait"
    /\ ~regCtxDone
    /\ retryCount' = retryCount + 1
    /\ attemptCount' = Bump(attemptCount)
    /\ regPc' = IF retryCount' >= MaxRetry THEN "returned"
               ELSE IF backend = "consul" THEN "rewrite" ELSE "acquire"
    /\ UNCHANGED <<backend, discoverVars, nodeVars, writeVars, regConf, regMeta, regCtxDone, retryBefore,
                   retryAfter, lossCount, regLastNode, regStored, regWrite, regResult,
                   regRemoving>>

\* the backoff timer fires; s.retryCount++
retryTimer ==
    /\ regPc = "wait"
    /\ ~regCtxDone
    /\ retryCount' = retryCount + 1
    /\ attemptCount' = Bump(attemptCount)
    /\ regPc' = IF backend = "consul" THEN "rewrite" ELSE "acquire"
    /\ UNCHANGED <<backend, discoverVars, nodeVars, writeVars, regConf, regMeta, regCtxDone, retryBefore,
                   retryAfter, lossCount, regLastNode, regStored, regWrite, regResult,
                   regRemoving>>

\* etcd initLease() / Kubernetes ensureConfigMap(): re-acquire the handle
initLease(ok) ==
    /\ regPc = "acquire"
    /\ IF ok /\ ~regCtxDone
       THEN regPc' = "rewrite" /\ regWrite' = Wrote("SustainLease")
       ELSE regPc' = "retry" /\ UNCHANGED regWrite
    /\ UNCHANGED <<backend, discoverVars, nodeVars, writeVars, regConf, regMeta, regCtxDone, retryCount, retryBefore,
                   retryAfter, lossCount, attemptCount, regLastNode, regStored, regResult, regRemoving>>

\* (variant for comparison: a recovery that does not run the retryAfter hook)
registerNoHook(ok) ==
    /\ regPc = "rewrite"
    /\ IF regLastNode = "nil" \/ registerOk(ok)
       THEN /\ regPc' = "top"
            /\ retryCount' = 0
            /\ IF regLastNode = "nil"
               THEN UNCHANGED <<regStored, regWrite>>
               ELSE /\ regStored' = regLastNode
                    /\ regWrite' = Wrote("SustainLease")
       ELSE /\ regPc' = "retry"
            /\ UNCHANGED <<retryCount, regStored, regWrite>>
    /\ UNCHANGED <<backend, discoverVars, nodeVars, writeVars, regConf, regMeta, regCtxDone, retryBefore, retryAfter,
                   lossCount, attemptCount, regLastNode, regResult, regRemoving>>

\* re-write s.lastNode; on success retryAfter(), s.retryCount = 0, return true
register(ok) ==
    /\ regPc = "rewrite"
    /\ IF regLastNode = "nil" \/ registerOk(ok)
       THEN /\ regPc' = "top"
            /\ retryAfter' = Bump(retryAfter)
            /\ retryCount' = 0
            /\ IF regLastNode = "nil"
               THEN UNCHANGED <<regStored, regWrite>>
               ELSE /\ regStored' = regLastNode
                    /\ regWrite' = Wrote("SustainLease")
       ELSE /\ regPc' = "retry"
            /\ UNCHANGED <<retryAfter, retryCount, regStored, regWrite>>
    /\ UNCHANGED <<backend, discoverVars, nodeVars, writeVars, regConf, regMeta, regCtxDone, retryBefore,
                   lossCount, attemptCount, regLastNode, regResult, regRemoving>>

\* <-s.ctx.Done() is taken at a select of the loop
SustainReturn ==
    /\ regPc \in {"top", "recv", "wait"}
    /\ regCtxDone
    /\ regPc' = "returned"
    /\ UNCHANGED <<backend, discoverVars, nodeVars, writeVars, regConf, regMeta, regCtxDone, retryCount, retryBefore,
                   retryAfter, lossCount, attemptCount, regLastNode, regStored, regWrite, regResult,
                   regRemoving>>

\* s.lastNode == nil, s.serviceId == "" and s.checkId == ""
NilNode ==
    [metaNil |-> TRUE, appId |-> "", env |-> "", leaseId |-> 0, methods |-> {},
     runDate |-> EmptyString]
NoServiceId == [appId |-> "", env |-> "", leaseId |-> 0, uuid |-> 0]
NoCheckId == [prefix |-> "", service |-> NoServiceId]
\* the sessions that write into the ConfigMap, and a session with no call running
Writers == {1, 2}
WriterIdle ==
    [pc |-> "idle", op |-> "none", val |-> NotJson, try |-> 0, data |-> EmptyMap, rv |-> 0,
     ret |-> "none", stored |-> NotJson]
\* nothing held, nothing sent
NodeOff ==
    /\ writers = [w \in Writers |-> WriterIdle]
    /\ leaseId = 0
    /\ nodeVal = NilNode
    /\ serviceId = NoServiceId
    /\ checkId = NoCheckId
    /\ agentCalls = <<>>
    /\ wire = NilNode

\* no session: the state of the session variables in the Discovery Cache specifications
RegOff ==
    /\ regPc = "off"
    /\ regConf = ZeroConf
    /\ regMeta = [appId |-> "a", env |-> CacheEnv]
    /\ regCtxDone = FALSE
    /\ retryCount = 0
    /\ retryBefore = 0
    /\ retryAfter = 0
    /\ lossCount = 0
    /\ attemptCount = 0
    /\ regLastNode = "nil"
    /\ regStored = "none"
    /\ regWrite = [by |-> "none", tick |-> FALSE]
    /\ regResult = "none"
    /\ regRemoving = FALSE
    /\ NodeOff

\* a caller is about to construct a session with the given meta and conf
RegInit(metas, confs) ==
    /\ regPc = "conf"
    /\ regConf \in confs
    /\ regMeta \in metas
    /\ regCtxDone = FALSE
    /\ retryCount = 0
    /\ retryBefore = 0
    /\ retryAfter = 0
    /\ lossCount = 0
    /\ attemptCount = 0
    /\ regLastNode = "nil"
    /\ regStored = "none"
    /\ regWrite = [by |-> "none", tick |-> FALSE]
    /\ regResult = "none"
    /\ regRemoving = FALSE
    /\ NodeOff

\* the steps of the SustainLease loop
LoopNext ==
    \/ regPc = "top" /\ \E ok \in BOOLEAN : EtcdKeepAlive(ok)
    \/ EtcdChannelClosed
    \/ SustainTick
    \/ regPc = "beat" /\ \E ok \in BOOLEAN : heartbeat(ok)
    \/ retryBegin
    \/ retryExhausted
    \/ retryTimer
    \/ regPc = "acquire" /\ \E ok \in BOOLEAN : initLease(ok)
    \/ regPc = "rewrite" /\ \E ok \in BOOLEAN : register(ok)
    \/ SustainReturn

RegNext ==
    \/ regPc = "conf" /\ \E ok \in BOOLEAN : NewRegister(ok)
    \/ Constructed /\ \E service \in RegServices : \E ok \in BOOLEAN : Install(service, ok)
    \/ Uninstall
    \/ regRemoving /\ \E ok \in BOOLEAN : UninstallRemove(ok)
    \/ SustainLease
    \/ LoopNext


\* ------------------------------- Registration Sessions: the node on the wire
\* the handlers of the three RegisterInstance types with the values they hold
\* and send; a handler call is one step
\* uuid.NewString() values, grant IDs and UnixNano readings
Uuids == {1, 2}
HandleIds == 0..2
\* the Methods of the service a caller hands to Install
NodeMethods == {"X"}
\* the key written by another session of the same env
OtherKey == <<"b", 1>>

newServiceId(u) ==
    [appId |-> regMeta.appId, env |-> regMeta.env, leaseId |-> leaseId, uuid |-> u]
\* "service:" + s.serviceId
CheckIdOf(sid) == [prefix |-> "service:", service |-> sid]
dataKey == <<regMeta.appId, leaseId>>
AgentCall(op, sid, cid) == [op |-> op, service |-> sid, check |-> cid]

\* what no handler of the session touches here; the hooks of the retry loop,
\* which are the caller's, are counted in the loop steps above
nodeFrame ==
    <<backend, etcdVars, consulVars, readVars, writeVars, k8sService, k8sMethod,
      resourceVersion, k8sPc, k8sCtxDone, pollResult, regMeta, retryBefore, retryAfter, lossCount, attemptCount,
      regStored, regRemoving>>

\* register returned nil
registered(node, ok1, ok2) ==
    \/ node = NilNode
    \/ IF backend = "consul" THEN ok1 /\ ok2 ELSE ok1 /\ ~regCtxDone

\* register: marshal s.lastNode and send it. etcd: Put under the lease (ok1).
\* Consul: ServiceRegister (ok1), then UpdateTTL (ok2). Kubernetes:
\* upsertDataKey; its Update went through (ok1), or it failed after
\* ensureConfigMap had created the ConfigMap (ok2)
registerNode(by, node, sid, cid, ok1, ok2) ==
    IF node = NilNode
    THEN /\ agentCalls' = <<>>
         /\ UNCHANGED <<wire, cmExists, cmData, cmRV, regWrite>>
    ELSE CASE backend = "etcd" ->
                /\ agentCalls' = <<>>
                /\ IF ok1 /\ ~regCtxDone
                   THEN wire' = node /\ regWrite' = Wrote(by)
                   ELSE UNCHANGED <<wire, regWrite>>
                /\ UNCHANGED <<cmExists, cmData, cmRV>>
           [] backend = "consul" ->
                /\ agentCalls' =
                       IF ok1 THEN <<AgentCall("ServiceRegister", sid, NoCheckId),
                                     AgentCall("UpdateTTL", NoServiceId, cid)>>
                              ELSE <<AgentCall("ServiceRegister", sid, NoCheckId)>>
                /\ IF ok1
                   THEN wire' = node /\ regWrite' = Wrote(by)
                   ELSE UNCHANGED <<wire, regWrite>>
                /\ UNCHANGED <<cmExists, cmData, cmRV>>
           [] OTHER ->
                /\ agentCalls' = <<>>
                /\ IF ok1 /\ ~regCtxDone
                   THEN /\ cmRV < MaxRV
                        /\ cmExists' = TRUE
                        /\ cmData' = MapSet(cmData, dataKey, Marshal(node))
                        /\ cmRV' = cmRV + 1
                        /\ wire' = node
                        /\ regWrite' = Wrote(by)
                   ELSE /\ cmExists' = (cmExists \/ (ok2 /\ ~regCtxDone))
                        /\ UNCHANGED <<cmData, cmRV, wire, regWrite>>

\* NewRegister: conf.Bootstrap(); etcd grants the first lease (id, if ok), the
\* others take UnixNano (id) as leaseId, 1 if it is 0
NodeNewRegister(id, ok) ==
    /\ regPc = "conf"
    /\ regConf' = Bootstrap(regConf)
    /\ IF backend = "etcd"
       THEN /\ id # 0
            /\ IF ok THEN regPc' = "new" /\ leaseId' = id /\ regWrite' = Wrote("NewRegister")
                     ELSE regPc' = "failed" /\ UNCHANGED <<leaseId, regWrite>>
       ELSE /\ ok
            /\ regPc' = "new"
            /\ leaseId' = (IF id = 0 THEN 1 ELSE id)
            /\ UNCHANGED regWrite
    /\ UNCHANGED <<nodeFrame, now, cmExists, cmData, cmRV, regCtxDone, retryCount,
                   regLastNode, regResult, nodeVal, serviceId, checkId, agentCalls, wire>>

\* Install without the test of s.serviceId: every call takes a new service ID
NodeInstallNewId(service, u, ok1, ok2) ==
    /\ Constructed
    /\ IF installValidates /\ MetaEmpty
       THEN /\ regResult' = "error"
            /\ agentCalls' = <<>>
            /\ UNCHANGED <<regLastNode, nodeVal, serviceId, checkId, wire, cmExists, cmData,
                           cmRV, regWrite>>
       ELSE LET node == Node(regMeta.appId, regMeta.env, leaseId, NodeMethods, Format(now))
                sid == IF backend = "consul" THEN newServiceId(u) ELSE serviceId
                cid == IF backend = "consul" THEN CheckIdOf(sid) ELSE checkId
            IN /\ regLastNode' = service
               /\ nodeVal' = node
               /\ serviceId' = sid
               /\ checkId' = cid
               /\ registerNode("Install", node, sid, cid, ok1, ok2)
               /\ regResult' = IF registered(node, ok1, ok2) THEN "nil" ELSE "error"
    /\ UNCHANGED <<nodeFrame, now, regPc, regConf, regCtxDone, retryCount, leaseId>>

\* Install: stamp the node (Meta, LeaseId, RunDate), remember it, take a service
\* ID if there is none yet (Consul), register
NodeInstall(service, u, ok1, ok2) ==
    /\ Constructed
    /\ IF installValidates /\ MetaEmpty
       THEN /\ regResult' = "error"
            /\ agentCalls' = <<>>
            /\ UNCHANGED <<regLastNode, nodeVal, serviceId, checkId, wire, cmExists, cmData,
                           cmRV, regWrite>>
       ELSE LET node == Node(regMeta.appId, regMeta.env, leaseId, NodeMethods, Format(now))
                sid == IF backend = "consul" /\ serviceId = NoServiceId
                       THEN newServiceId(u) ELSE serviceId
                cid == IF backend = "consul" /\ serviceId = NoServiceId
                       THEN CheckIdOf(sid) ELSE checkId
            IN /\ regLastNode' = service
               /\ nodeVal' = node
               /\ serviceId' = sid
               /\ checkId' = cid
               /\ registerNode("Install", node, sid, cid, ok1, ok2)
               /\ regResult' = IF registered(node, ok1, ok2) THEN "nil" ELSE "error"
    /\ UNCHANGED <<nodeFrame, now, regPc, regConf, regCtxDone, retryCount, leaseId>>

\* Uninstall that deletes the ConfigMap together with the key
NodeUninstallDropsAll(ok) ==
    /\ Constructed
    /\ regCtxDone' = TRUE
    /\ agentCalls' = <<>>
    /\ IF backend = "kubernetes" /\ cmExists /\ ok
       THEN /\ cmExists' = FALSE
            /\ cmData' = EmptyMap
            /\ wire' = NilNode
            /\ regWrite' = Wrote("Uninstall")
            /\ UNCHANGED cmRV
       ELSE UNCHANGED <<cmExists, cmData, cmRV, wire, regWrite>>
    /\ UNCHANGED <<nodeFrame, now, regPc, regConf, retryCount,
                   regLastNode, regResult, leaseId, nodeVal, serviceId, checkId>>

\* Uninstall: s.cancel(), then the removal under a context of its own. etcd
\* revokes the lease; Consul deregisters s.serviceId unless it is empty;
\* Kubernetes deletes its data key (deleteDataKey) unless s.meta.AppId is empty
NodeUninstall(ok) ==
    /\ Constructed
    /\ regCtxDone' = TRUE
    /\ CASE backend = "etcd" ->
              /\ agentCalls' = <<>>
              /\ IF ok THEN wire' = NilNode /\ regWrite' = Wrote("Uninstall")
                       ELSE UNCHANGED <<wire, regWrite>>
              /\ UNCHANGED <<cmExists, cmData, cmRV>>
         [] backend = "consul" ->
              /\ agentCalls' = IF serviceId = NoServiceId THEN <<>>
                               ELSE <<AgentCall("ServiceDeregister", serviceId, NoCheckId)>>
              /\ IF serviceId # NoServiceId /\ ok
                 THEN wire' = NilNode /\ regWrite' = Wrote("Uninstall")
                 ELSE UNCHANGED <<wire, regWrite>>
              /\ UNCHANGED <<cmExists, cmData, cmRV>>
         [] OTHER ->
              /\ agentCalls' = <<>>
              /\ IF regMeta.appId # "" /\ cmExists /\ dataKey \in DOMAIN cmData /\ ok
                 THEN /\ cmRV < MaxRV
                      /\ cmData' = MapDelete(cmData, dataKey)
                      /\ cmRV' = cmRV + 1
                      /\ wire' = NilNode
                      /\ regWrite' = Wrote("Uninstall")
                      /\ UNCHANGED cmExists
                 ELSE UNCHANGED <<cmExists, cmData, cmRV, wire, regWrite>>
    /\ UNCHANGED <<nodeFrame, now, regPc, regConf, retryCount,
                   regLastNode, regResult, leaseId, nodeVal, serviceId, checkId>>

\* SustainLease is started
NodeSustainLease ==
    /\ regPc = "new"
    /\ regPc' = "top"
    /\ UNCHANGED <<nodeFrame, nodeVars, now, cmExists, cmData, cmRV, regConf, regCtxDone,
                   retryCount, regLastNode, regWrite, regResult>>

\* SustainLease, one renewal. etcd: the keepalive channel answers (ok1) or is
\* closed. Consul: heartbeat, an UpdateTTL unless s.checkId is empty.
\* Kubernetes: the ticker case sets RunDate and registers
NodeSustain(ok1, ok2) ==
    /\ regPc = "top"
    /\ ~regCtxDone
    /\ CASE backend = "etcd" ->
              /\ regPc' = IF ok1 THEN "top" ELSE "retry"
              /\ retryCount' = IF ok1 THEN 0 ELSE retryCount
              /\ agentCalls' = <<>>
              /\ UNCHANGED <<nodeVal, wire, cmExists, cmData, cmRV, regWrite>>
         [] backend = "consul" ->
              /\ agentCalls' = IF checkId = NoCheckId THEN <<>>
                               ELSE <<AgentCall("UpdateTTL", NoServiceId, checkId)>>
              /\ regPc' = IF checkId # NoCheckId /\ ok1 THEN "top" ELSE "retry"
              /\ retryCount' = IF checkId # NoCheckId /\ ok1 THEN 0 ELSE retryCount
              /\ UNCHANGED <<nodeVal, wire, cmExists, cmData, cmRV, regWrite>>
         [] OTHER ->
              LET node == IF regLastNode = "nil" THEN nodeVal
                          ELSE [nodeVal EXCEPT !.runDate = Format(now)]
              IN /\ nodeVal' = node
                 /\ registerNode("SustainLease", node, serviceId, checkId, ok1, ok2)
                 /\ regPc' = IF registered(node, ok1, ok2) THEN "top" ELSE "retry"
                 /\ retryCount' = IF registered(node, ok1, ok2) THEN 0 ELSE retryCount
    /\ UNCHANGED <<nodeFrame, now, regConf, regCtxDone, regLastNode,
                   regResult, leaseId, serviceId, checkId>>

\* SustainLease sees <-s.ctx.Done() and returns
NodeSustainReturn ==
    /\ regPc = "top"
    /\ regCtxDone
    /\ regPc' = "returned"
    /\ UNCHANGED <<nodeFrame, nodeVars, now, cmExists, cmData, cmRV, regConf, regCtxDone,
                   retryCount, regLastNode, regWrite, regResult>>

\* retryLease / retryHeartbeat / retryRegister, one round of the loop: give up
\* at MaxRetry; else the hook, the timer (or <-s.ctx.Done()), s.retryCount++,
\* then etcd: initLease (id, if ok1), LeaseId of the node, register (ok2);
\* Consul: register; Kubernetes: ensureConfigMap and register
NodeRetry(id, ok1, ok2) ==
    /\ regPc = "retry"
    /\ IF retryCount >= MaxRetry
       THEN /\ regPc' = "returned"
            /\ UNCHANGED <<retryCount, nodeVars, cmExists, cmData,
                           cmRV, regWrite>>
       ELSE /\ IF regCtxDone
               THEN /\ regPc' = "returned"
                    /\ UNCHANGED <<retryCount, nodeVars, cmExists, cmData, cmRV,
                                   regWrite>>
               ELSE IF backend = "etcd" /\ ~ok1
               THEN /\ retryCount' = retryCount + 1
                    /\ agentCalls' = <<>>
                    /\ UNCHANGED <<regPc, leaseId, nodeVal, serviceId, checkId,
                                   wire, cmExists, cmData, cmRV, regWrite>>
               ELSE LET lease == IF backend = "etcd" THEN id ELSE leaseId
                        node == IF backend = "etcd" /\ regLastNode # "nil"
                                THEN [nodeVal EXCEPT !.leaseId = lease] ELSE nodeVal
                        done == registered(node, IF backend = "etcd" THEN ok2 ELSE ok1, ok2)
                    IN /\ backend = "etcd" => id \notin {0, leaseId}
                       /\ leaseId' = lease
                       /\ nodeVal' = node
                       /\ registerNode("retry", node, serviceId, checkId,
                                       IF backend = "etcd" THEN ok2 ELSE ok1, ok2)
                       /\ regPc' = IF done THEN "top" ELSE "retry"
                       /\ retryCount' = (IF done THEN 0 ELSE retryCount + 1)
                       /\ UNCHANGED <<serviceId, checkId>>
    /\ UNCHANGED <<nodeFrame, now, regConf, regCtxDone, regLastNode, regResult>>

\* time passes
Elapse ==
    /\ now < MaxTicks * TTL
    /\ now' = now + TTL
    /\ UNCHANGED <<backend, etcdVars, consulVars, readVars, regVars, cmExists, cmData, cmRV,
                   k8sService, k8sMethod, resourceVersion, k8sPc, k8sCtxDone, pollResult>>

NodeNext ==
    \/ regPc = "conf" /\ \E id \in HandleIds : \E ok \in BOOLEAN : NodeNewRegister(id, ok)
    \/ Constructed /\ \E service \in RegServices : \E u \in Uuids :
           \E ok1, ok2 \in BOOLEAN : NodeInstall(service, u, ok1, ok2)
    \/ Constructed /\ \E ok \in BOOLEAN : NodeUninstall(ok)
    \/ NodeSustainLease
    \/ regPc = "top" /\ \E ok1, ok2 \in BOOLEAN : NodeSustain(ok1, ok2)
    \/ NodeSustainReturn
    \/ regPc = "retry" /\ \E id \in HandleIds : \E ok1, ok2 \in BOOLEAN : NodeRetry(id, ok1, ok2)
    \/ Elapse
    \/ backend = "kubernetes" /\ upsertDataKey(OtherKey, Marshal(lastNode(OtherKey, 0)))
    \/ deleteDataKey(OtherKey)
    \/ CmDelete


\* ============================================================ specifications
Init ==
    /\ backend \in {"etcd", "consul", "kubernetes"}
    /\ EtcdInit
    /\ ConsulInit
    /\ K8sInit
    /\ ReadInit
    /\ RegOff

Next == EtcdNext \/ ConsulNext \/ K8sNext
SnapshotNext == ConsulNext \/ K8sNext

InitEtcd == backend = "etcd" /\ Init
InitConsul == backend = "consul" /\ Init
InitK8s == backend = "kubernetes" /\ Init
InitSnapshot == backend \in {"consul", "kubernetes"} /\ Init

\* all three adapters
Spec == Init /\ [][Next]_vars
\* one adapter each
SpecEtcd == InitEtcd /\ [][EtcdNext]_vars
SpecConsul == InitConsul /\ [][ConsulNext]_vars
SpecK8s == InitK8s /\ [][K8sNext]_vars
\* the sessions whose writes the followed ConfigMap goes through
FollowKeys == {<<"a", 1>>, <<"b", 1>>}
FollowNext ==
    \/ backend = "kubernetes" /\ \E k \in FollowKeys : upsertDataKey(k, Marshal(lastNode(k, now)))
    \/ backend = "kubernetes" /\ \E k \in FollowKeys :
           upsertUnversioned(k, Marshal(lastNode(k, now)))
    \/ backend = "kubernetes" /\ \E k \in FollowKeys : deleteDataKey(k)
    \/ CmDelete
    \/ K8sNewDiscover
    \/ K8sNewDiscoverError
    \/ K8sWatcher
    \/ pullAndRebuildIfChanged
    \/ K8sPollError
    \/ K8sBackoff
    \/ K8sWatchReturn
    \/ K8sUnwatch
\* the ticker of Watcher keeps firing and its Get keeps succeeding; the 200ms
\* timer of the back-off fires
SpecFollow ==
    InitK8s /\ [][FollowNext]_vars /\ SF_vars(pullAndRebuildIfChanged) /\ WF_vars(K8sBackoff)
\* the two adapters that rebuild their index from a snapshot
SpecSnapshot == InitSnapshot /\ [][SnapshotNext]_vars

\* Registration Sessions: the scheduler runs the loop whenever it can take a
\* step, backend calls come back, and a select that is offered <-s.ctx.Done()
\* again and again takes it
InitDiscover ==
    backend \in {"etcd", "consul", "kubernetes"} /\ EtcdInit /\ ConsulInit /\ K8sInit /\ ReadInit
InitRegister == InitDiscover /\ RegInit(RegMetas, {ZeroConf})
InitBootstrap == InitDiscover /\ RegInit({[appId |-> "a", env |-> CacheEnv]}, ConfInputs)
BootstrapNext == \E ok \in BOOLEAN : NewRegister(ok)
\* one session of each adapter beside the clock and, in Kubernetes, another
\* session's writes to the same ConfigMap
NodeMetas == {[appId |-> "a", env |-> CacheEnv], [appId |-> "", env |-> CacheEnv]}
InitNode == InitDiscover /\ RegInit(NodeMetas, {ZeroConf})
SpecNode == InitNode /\ [][NodeNext]_vars
SpecRegister == InitRegister /\ [][RegNext]_vars /\ WF_vars(LoopNext) /\ SF_vars(SustainReturn)
\* ServiceConf.Bootstrap over the configurations a caller may pass
SpecBootstrap == InitBootstrap /\ [][BootstrapNext]_vars
\* the key of one session of CacheEnv
OneKey == <<"a", 1>>
\* the etcd Discovery Cache of CacheEnv beside sessions of other envs
EnvKeys == {OneKey} \cup {ForeignKeySeq[i] : i \in 1..Len(ForeignKeySeq)}
EnvNext ==
    \/ backend = "etcd" /\ \E k \in EnvKeys : \E v \in EtcdValues(k) : EtcdPut(k, v)
    \/ backend = "etcd" /\ \E k \in EnvKeys : EtcdDelete(k)
    \/ EtcdNewDiscover
    \/ EtcdWatcher
    \/ EtcdWatchOpen
    \/ backend = "etcd" /\ \E h \in 1..MaxRev : EtcdWatchEvents(h)
    \/ backend = "etcd" /\ \E h \in 0..MaxRev : EtcdWatchCanceled(h)
    \/ EtcdWatchClosed
    \/ EtcdWatchBackoff
    \/ EtcdWatchReturn
    \/ EtcdUnwatch
SpecEnv == InitEtcd /\ [][EnvNext]_vars
\* values that are no registration: no JSON, a node without meta, with an empty
\* appId, with an empty env
MalformedValues ==
    {NotJson,
     Marshal([Node("a", CacheEnv, 1, {"X"}, Format(0)) EXCEPT !.metaNil = TRUE]),
     Marshal(Node("", CacheEnv, 1, {"X"}, Format(0))),
     Marshal(Node("a", "", 1, {"X"}, Format(0)))}
\* a Discovery Cache beside a backend that holds the registration of one session
\* (a/1) and one key whose value is malformed
MalformedNext ==
    \/ backend = "etcd" /\ \E v \in EtcdValues(OneKey) : EtcdPut(OneKey, v)
    \/ backend = "etcd" /\ \E v \in MalformedValues : EtcdPut(JunkKey, v)
    \/ backend = "etcd" /\ \E k \in {OneKey, JunkKey} : EtcdDelete(k)
    \/ EtcdNewDiscover
    \/ EtcdWatcher
    \/ EtcdWatchOpen
    \/ backend = "etcd" /\ \E h \in 1..MaxRev : EtcdWatchEvents(h)
    \/ backend = "consul" /\ \E idx \in RebuildOutcomes : \E li \in LastIndexes :
           ConsulNewDiscover(idx, li)
    \/ backend = "consul" /\ \E idx \in RebuildOutcomes : \E li \in LastIndexes :
           ConsulWatchQuery(idx, li)
    \/ backend = "kubernetes" /\ \E v \in CmValues(OneKey, now) : upsertDataKey(OneKey, v)
    \/ backend = "kubernetes" /\ \E v \in MalformedValues : upsertDataKey(JunkKey, v)
    \/ backend = "kubernetes" /\ \E k \in {OneKey, JunkKey} : deleteDataKey(k)
    \/ K8sNewDiscover
    \/ K8sWatcher
    \/ pullAndRebuildIfChanged
SpecMalformed == Init /\ [][MalformedNext]_vars
\* the Consul Discovery Cache rebuilding from every snapshot the backend may return
RebuildNext ==
    \E entries \in Snapshots : \E li \in LastIndexes : ConsulRebuildFrom(entries, li)
SpecRebuild == InitConsul /\ [][RebuildNext]_vars
\* GetService beside the Watcher
SpecRead == Init /\ [][ReadNext]_vars
\* the loops of one behaviour: a Discovery Cache with its Watcher, or a
\* Registration Session with its SustainLease; a Watcher that is offered
\* <-s.ctx.Done() at each of its suspension points takes it
InitCancel ==
    InitDiscover /\ (RegOff \/ RegInit({[appId |-> "a", env |-> CacheEnv]}, {ZeroConf}))
\* the Watchers beside a backend in which one session (a/1) comes, re-registers and goes
EtcdOneNext ==
    \/ backend = "etcd" /\ \E v \in EtcdValues(OneKey) : EtcdPut(OneKey, v)
    \/ EtcdDelete(OneKey)
    \/ EtcdNewDiscover
    \/ EtcdWatcher
    \/ EtcdWatchOpen
    \/ backend = "etcd" /\ \E h \in 1..MaxRev : EtcdWatchEvents(h)
    \/ backend = "etcd" /\ \E h \in 0..MaxRev : EtcdWatchCanceled(h)
    \/ EtcdWatchClosed
    \/ EtcdWatchBackoff
    \/ EtcdWatchReturn
    \/ EtcdUnwatch
\* the etcd Watcher beside a store that is compacted
CompactNext ==
    \/ EtcdOneNext
    \/ backend = "etcd" /\ \E c \in 1..MaxRev : EtcdCompact(c)
    \/ EtcdWatchCompacted
SpecCompact == InitEtcd /\ [][CompactNext]_vars
WatcherNext ==
    \/ EtcdOneNext
    \/ ConsulNext
    \/ backend = "kubernetes" /\ \E v \in CmValues(OneKey, now) : upsertDataKey(OneKey, v)
    \/ deleteDataKey(OneKey)
    \/ CmDelete
    \/ Tick
    \/ K8sNewDiscover
    \/ K8sNewDiscoverError
    \/ K8sWatcher
    \/ pullAndRebuildIfChanged
    \/ K8sPollError
    \/ K8sBackoff
    \/ K8sWatchReturn
    \/ K8sUnwatch
CancelNext == RegNext \/ (regPc = "off" /\ WatcherNext)
SpecCancel ==
    /\ InitCancel
    /\ [][CancelNext]_vars
    /\ WF_vars(LoopNext) /\ SF_vars(SustainReturn)
    /\ WF_vars(EtcdWatchReturn) /\ WF_vars(ConsulWatchReturn) /\ WF_vars(K8sWatchReturn)

\* =================================================================== claims
\* the cursor of the etcd instance: the revision its next Watch starts from
etcdCursor ==
    IF etcdPc = "recv" THEN streamRev ELSE IF etcdPc = "built" THEN watchRev ELSE startRev
\* revision r was consumed by the running Watcher (not by bootstrap)
AppliedByWatcher(r) == etcdPc = "recv" /\ r >= watchRev /\ r < streamRev
EtcdIndex == Index(etcdService, etcdMethod)

\* C1: in the etcd cache every method-index entry m -> a is justified: a is a key
\* of the service index and some node listed under a has m in its methods
C1_MethodEntriesJustified ==
    \A sm \in DOMAIN etcdMethod :
        /\ etcdMethod[sm] \in DOMAIN etcdService
        /\ \E i \in 1..Len(etcdService[etcdMethod[sm]]) :
               sm \in etcdService[etcdMethod[sm]][i].methods

\* a session re-registered under its leaseId with a smaller method set, the
\* Watcher applied the put, and the method it dropped has no entry any more
C1_Witness ==
    \E r \in 1..Len(etcdLog) :
        /\ AppliedByWatcher(r)
        /\ r + 1 = streamRev
        /\ etcdLog[r].type = "PUT"
        /\ etcdLog[r].hasPrevKv
        /\ "Y" \in Unmarshal(etcdLog[r].prevKv).val.methods
        /\ "Y" \notin Unmarshal(etcdLog[r].kv).val.methods
        /\ etcdLog[r].key[1] \in DOMAIN etcdService
        /\ "X" \in DOMAIN etcdMethod
        /\ "Y" \notin DOMAIN etcdMethod

\* C2: in the etcd cache every method listed by a node of the service index is a
\* key of the method index, also when two appIds declare the same method
C2_EveryServedMethodIndexed ==
    \A a \in DOMAIN etcdService : \A i \in 1..Len(etcdService[a]) :
        \A sm \in etcdService[a][i].methods :
            GetService(EtcdIndex, sm).err # "ErrServiceMethodNotExists"

\* C4: in the etcd cache no appId's node list holds two nodes with the same leaseId
C4_LeaseUnique ==
    \A a \in DOMAIN etcdService : \A i, j \in 1..Len(etcdService[a]) :
        etcdService[a][i].leaseId = etcdService[a][j].leaseId => i = j

\* a put for a leaseId already listed was applied by the Watcher next to another
\* node of the appId: the new node is at the head, the old one is gone
C4_Witness ==
    \E r \in 1..Len(etcdLog) :
        /\ AppliedByWatcher(r)
        /\ r + 1 = streamRev
        /\ etcdLog[r].type = "PUT"
        /\ etcdLog[r].hasPrevKv
        /\ etcdLog[r].kv # etcdLog[r].prevKv
        /\ LET a == etcdLog[r].key[1]
           IN /\ a \in DOMAIN etcdService
              /\ Len(etcdService[a]) = 2
              /\ etcdService[a][1] = Unmarshal(etcdLog[r].kv).val
              /\ etcdService[a][2].leaseId # etcdService[a][1].leaseId

ConsulIndex == Index(consulService, consulMethod)
K8sIndex == Index(k8sService, k8sMethod)
\* every method of every node of idx.service is a key of idx.method, and every
\* entry of idx.method names an appId of idx.service with a node listing it
IndexDerived(idx) ==
    /\ \A a \in DOMAIN idx.service : \A i \in 1..Len(idx.service[a]) :
           idx.service[a][i].methods \subseteq DOMAIN idx.method
    /\ \A sm \in DOMAIN idx.method :
           /\ idx.method[sm] \in DOMAIN idx.service
           /\ \E i \in 1..Len(idx.service[idx.method[sm]]) :
                  sm \in idx.service[idx.method[sm]][i].methods

\* C3: in the Consul and Kubernetes caches, after construction and after every
\* rebuild, the method index is derived from the service index just built
C3_MethodIndexDerived == IndexDerived(ConsulIndex) /\ IndexDerived(K8sIndex)

\* a Kubernetes poll has rebuilt the index from a ConfigMap in which two appIds
\* serve the same method
C3_Witness ==
    /\ pollResult = "rebuilt"
    /\ {"a", "b"} \subseteq DOMAIN k8sService
    /\ "X" \in k8sService["a"][1].methods
    /\ "X" \in k8sService["b"][1].methods
    /\ k8sMethod["X"] = "a"

LeaseUnique(svc) ==
    \A a \in DOMAIN svc : \A i, j \in 1..Len(svc[a]) :
        svc[a][i].leaseId = svc[a][j].leaseId => i = j

\* C5: in the Consul and Kubernetes caches no appId's node list holds two entries
\* with equal leaseId after a rebuild
C5_RebuildLeaseUnique == LeaseUnique(consulService) /\ LeaseUnique(k8sService)

\* the leaseIds of the valid node values of appId a in a store
StoredLeases(store, a) ==
    {Unmarshal(store[k]).val.leaseId :
        k \in {x \in DOMAIN store :
                  /\ ~Unmarshal(store[x]).err
                  /\ ~MetaInvalid(Unmarshal(store[x]).val)
                  /\ Unmarshal(store[x]).val.appId = a}}
\* the leaseIds listed under appId a
ListedLeases(svc, a) ==
    {MapGetSlice(svc, a)[i].leaseId : i \in 1..Len(MapGetSlice(svc, a))}

\* C6: whenever the etcd instance has consumed the revisions up to r (its cursor
\* is r + 1), the leaseIds listed under every appId are those of the valid node
\* values the store holds at revision r
C6_IndexMatchesStoreAtCursor ==
    etcdPc # "new" =>
        \A a \in Apps : ListedLeases(etcdService, a) = StoredLeases(StoreAt(etcdCursor - 1), a)

\* a node of the Kubernetes index is stale at time t
Stale(node, t) == t - ParseInLocation(node.runDate).t > TTL

\* C7: after every Kubernetes poll that fetched the ConfigMap (or found none) the
\* index holds no node whose run_date is older than the TTL at the time of that poll
C7_NoStaleNodeAfterPoll ==
    pollResult \in {"reset", "skipped", "rebuilt"} =>
        \A a \in DOMAIN k8sService : \A i \in 1..Len(k8sService[a]) :
            ~Stale(k8sService[a][i], now)

DistinctRunDates(nodes) ==
    \A i, j \in 1..Len(nodes) : nodes[i].runDate = nodes[j].runDate => i = j

\* C8: in the Kubernetes cache a node list whose run_dates are pairwise distinct
\* is strictly descending by run_date
C8_DescendingRunDate ==
    \A a \in DOMAIN k8sService :
        DistinctRunDates(k8sService[a]) =>
            \A i, j \in 1..Len(k8sService[a]) :
                i < j => ParseInLocation(k8sService[a][i].runDate).t
                             > ParseInLocation(k8sService[a][j].runDate).t

\* the session with the larger leaseId heartbeated first: the rebuild lists the
\* smaller leaseId, which has the newer run_date, at index 0
C8_Witness ==
    /\ "a" \in DOMAIN k8sService
    /\ Len(k8sService["a"]) = 2
    /\ k8sService["a"][1].leaseId = 1
    /\ k8sService["a"][2].leaseId = 2
    /\ k8sService["a"][1].runDate # k8sService["a"][2].runDate

\* no appId maps to an empty list, and GetService answers MethodNotFound or a
\* non-empty list
NoEmptyList(idx, get(_, _)) ==
    /\ \A a \in DOMAIN idx.service : Len(idx.service[a]) > 0
    /\ \A sm \in MethodNames :
           \/ get(idx, sm).err = "ErrServiceMethodNotExists"
           \/ get(idx, sm).err = "nil" /\ Len(get(idx, sm).nodes) > 0

\* C9: in every reachable state of each adapter's cache no appId key of the
\* service index maps to an empty node list, and GetService never returns
\* NodeNotFound nor a nil error with an empty list
C9_NoEmptyNodeList ==
    /\ NoEmptyList(EtcdIndex, GetService)
    /\ NoEmptyList(ConsulIndex, consulGetService)
    /\ NoEmptyList(K8sIndex, k8sGetService)

\* the Watcher applied the delete of the last node of an appId: the appId is
\* gone from the service index and its method is not found
C9_Witness ==
    \E r \in 1..Len(etcdLog) :
        /\ AppliedByWatcher(r)
        /\ r + 1 = streamRev
        /\ etcdLog[r].type = "DELETE"
        /\ etcdLog[r].key # JunkKey
        /\ etcdLog[r].key[1] \notin DOMAIN etcdService
        /\ etcdService # EmptyMap
        /\ GetService(EtcdIndex, "Y").err = "ErrServiceMethodNotExists"
        /\ "Y" \in Unmarshal(etcdLog[r].prevKv).val.methods

\* the Watcher consumes exactly the event of revision streamRev, a delete of a
\* registration
DeleteStep ==
    /\ etcdPc = "recv"
    /\ etcdPc' = "recv"
    /\ streamRev' = streamRev + 1
    /\ etcdLog[streamRev].type = "DELETE"
    /\ etcdLog[streamRev].key # JunkKey
DeleteEffect ==
    LET removed == Unmarshal(etcdLog[streamRev].prevKv).val
        a == removed.appId
        rest == SelectSeq(MapGetSlice(etcdService, a),
                          LAMBDA item : item.leaseId # removed.leaseId)
    IN /\ MapGetSlice(etcdService', a) = rest
       /\ a \in DOMAIN etcdService' <=> rest # <<>>
       /\ \A b \in (DOMAIN etcdService \cup DOMAIN etcdService') \ {a} :
              /\ b \in DOMAIN etcdService /\ b \in DOMAIN etcdService'
              /\ etcdService'[b] = etcdService[b]
       /\ (/\ Len(MapGetSlice(etcdService, a)) = 2
           /\ \A i \in 1..2 : "X" \in etcdService[a][i].methods
           /\ {etcdService[a][i].leaseId : i \in 1..2} = {1, 2}
           /\ removed.leaseId = 2
           /\ "X" \in DOMAIN etcdMethod /\ etcdMethod["X"] = a)
          => /\ GetService(Index(etcdService', etcdMethod'), "X").err = "nil"
             /\ Len(GetService(Index(etcdService', etcdMethod'), "X").nodes) = 1
             /\ GetService(Index(etcdService', etcdMethod'), "X").nodes[1].leaseId = 1

\* C10: a delete event for (a, l) removes exactly the node with leaseId l from
\* a's list, keeps the other nodes of a in order and the other appIds unchanged,
\* and drops a iff its list became empty; deleting leaseId 2 of two nodes that
\* serve X leaves GetService(X) returning exactly the leaseId-1 node
C10_DeleteFrame == [][DeleteStep => DeleteEffect]_vars

\* leaseId 1 and leaseId 2 of appId a were listed, the Watcher applied the delete
\* of leaseId 2, and GetService(X) returns the leaseId-1 node alone
C10_Witness ==
    \E r \in 1..Len(etcdLog) :
        /\ AppliedByWatcher(r)
        /\ r + 1 = streamRev
        /\ etcdLog[r].type = "DELETE"
        /\ etcdLog[r].key = <<"a", 2>>
        /\ <<"a", 1>> \in DOMAIN StoreAt(r)
        /\ GetService(EtcdIndex, "X").err = "nil"
        /\ Len(GetService(EtcdIndex, "X").nodes) = 1
        /\ GetService(EtcdIndex, "X").nodes[1].leaseId = 1

\* ------------------------------------------------------------ C11 (etcd)
\* the put and delete events a watch stream may carry for the keys of the model
ReplayEvents ==
    UNION {UNION {{Event("PUT", k, TRUE, v, FALSE, NotJson),
                   Event("DELETE", k, FALSE, NotJson, TRUE, v)} : v \in EtcdValues(k)} :
           k \in EtcdKeys}

\* C11: in the etcd Discovery Cache, for every reachable index state and every
\* put or delete event e, applying e twice in a row yields the same service and
\* method indices (same appIds, same leaseIds in the same order, same method
\* entries) as applying e once
C11_ReplayIdempotent ==
    \A e \in ReplayEvents :
        adapter(adapter(EtcdIndex, e), e) = adapter(EtcdIndex, e)

\* appId a is listed with two nodes, and a put for the leaseId listed second
\* changes the index when it is applied once (it moves that node to the front)
C11_Witness ==
    /\ "a" \in DOMAIN etcdService
    /\ Len(etcdService["a"]) = 2
    /\ \E e \in ReplayEvents :
           /\ e.type = "PUT"
           /\ ~Unmarshal(e.kv).err
           /\ Unmarshal(e.kv).val.appId = "a"
           /\ Unmarshal(e.kv).val.leaseId = etcdService["a"][2].leaseId
           /\ adapter(EtcdIndex, e) # EtcdIndex
           /\ Len(adapter(adapter(EtcdIndex, e), e).service["a"]) = 2

\* ------------------------------------------------- C12 (sessions, all adapters)
\* the retry loop is running: between the loss of the renewal and its outcome
Degraded == regPc \in {"retry", "wait", "acquire", "rewrite"}
\* a step of the SustainLease loop writes to the backend
LoopWrites == regWrite' # regWrite /\ regWrite'.by = "SustainLease"

\* C12: in every adapter's session, when the renewal is lost and every recovery
\* attempt fails (and the session is not cancelled), SustainLease returns after
\* finitely many attempts (every degraded episode ends, in a recovery or in the
\* return); the retry counter never exceeds maxRetry in any reachable state; and
\* after SustainLease has returned the loop issues no further backend write
C12_ExhaustedRetryReturns ==
    /\ [](retryCount <= MaxRetry)
    /\ [][regPc = "returned" => ~LoopWrites]_vars
    /\ (Degraded ~> regPc \in {"top", "returned"})

\* the session was never cancelled, maxRetry attempts were made, none recovered,
\* and SustainLease has returned
C12_Witness ==
    /\ regPc = "returned"
    /\ ~regCtxDone
    /\ retryCount = MaxRetry
    /\ retryBefore = MaxRetry
    /\ retryAfter = 0
    /\ lossCount = 1

\* ------------------------------------------------- C13 (sessions, all adapters)
\* a step of the retry loop attempts the handle re-acquisition or the re-write
AttemptStep == regPc \in {"acquire", "rewrite"} /\ regPc' # regPc

\* C13 as stated: within the retry loop, once the incremented counter has
\* reached maxRetry the session abandons at that point, without attempting the
\* handle re-acquisition or the node re-write in that iteration
C13_AbandonBeforeAttempt == [][AttemptStep => retryCount < MaxRetry]_vars

\* C13, amended: the iteration that increments the counter always goes on to
\* the handle re-acquisition / node re-write, whatever the counter has reached;
\* a session that was not cancelled abandons only at the loop condition, after
\* an attempt made with the counter at maxRetry has failed
C13_AbandonAfterFailedAttempt ==
    [][/\ retryCount' = retryCount + 1 => regPc' \in {"acquire", "rewrite"}
       /\ (regPc # "returned" /\ regPc' = "returned" /\ ~regCtxDone)
              => (regPc = "retry" /\ retryCount = MaxRetry)]_vars

\* the counter has reached maxRetry and the session is about to re-write its node
C13_Witness ==
    /\ regPc = "rewrite"
    /\ retryCount = MaxRetry
    /\ ~regCtxDone
    /\ regLastNode # "nil"

\* ------------------------------------------------- C14 (sessions, all adapters)
\* the loop is consuming renewals (or about to): no retry is in progress
Healthy == regPc \in {"top", "recv", "beat"}

\* C14: when SustainLease (maxRetry = 3) has lost its renewal channel 2 times
\* and the 2nd recovery attempt has brought it back, then after the recovery the
\* retry counter is 0, the pre-retry hook has fired exactly twice and the
\* post-retry hook has fired exactly twice
C14_TwoLossesTwoHooks ==
    (MaxRetry = 3 /\ Healthy /\ lossCount = 2 /\ attemptCount = 2)
        => (retryCount = 0 /\ retryBefore = 2 /\ retryAfter = 2)

\* the renewal was lost twice, the second attempt has just recovered the session
\* and the session still runs
C14_Witness ==
    /\ MaxRetry = 3
    /\ regPc = "top"
    /\ ~regCtxDone
    /\ lossCount = 2
    /\ attemptCount = 2
    /\ retryAfter = 2
    /\ regStored # "none"

\* ------------------------------------------------- C15 (sessions, all adapters)
\* a step of the SustainLease loop puts back a registration the backend no longer holds
LoopRecreates == regStored = "none" /\ regStored' # "none" /\ regWrite'.by = "SustainLease"

\* C15: once Uninstall has cancelled a session, the concurrently running
\* SustainLease loop performs no further backend write (no heartbeat / TTL
\* update, no handle re-acquisition, no re-registration), under every
\* interleaving of Uninstall with a heartbeat tick, a backoff timer expiry or a
\* retry in progress; the registration Uninstall removed is never re-created
C15_NoWriteAfterCancel == [][regCtxDone => (~LoopWrites /\ ~LoopRecreates)]_vars

\* ------------------------------------------- C16 (Watchers and sessions, all adapters)
\* the Watcher of the behaviour's adapter runs although its context is cancelled
WatcherCancelled ==
    \/ backend = "etcd" /\ etcdCtxDone /\ etcdPc \in {"top", "recv", "restart"}
    \/ backend = "consul" /\ consulCtxDone /\ consulPc \in {"loop", "backoff"}
    \/ backend = "kubernetes" /\ k8sCtxDone /\ k8sPc \in {"select", "backoff"}
WatcherReturned ==
    \/ backend = "etcd" /\ etcdPc = "returned"
    \/ backend = "consul" /\ consulPc = "returned"
    \/ backend = "kubernetes" /\ k8sPc = "returned"
\* the SustainLease loop runs although the session is cancelled
SessionCancelled ==
    regCtxDone /\ regPc \in {"top", "recv", "beat", "retry", "wait", "acquire", "rewrite"}
\* Unwatch / the cancelling half of Uninstall, called on a cancelled context,
\* can change nothing
RepeatedCancelNoOp ==
    /\ etcdCtxDone => ~ENABLED (EtcdUnwatch /\ vars' # vars)
    /\ consulCtxDone => ~ENABLED (ConsulUnwatch /\ vars' # vars)
    /\ k8sCtxDone => ~ENABLED (K8sUnwatch /\ vars' # vars)
    /\ regCtxDone => ~ENABLED (Uninstall /\ regCtxDone' # regCtxDone)

C17_EnvIsolation ==
    /\ \A a \in DOMAIN etcdService :
           \A i \in 1..Len(etcdService[a]) : etcdService[a][i].env = CacheEnv
    /\ \A sm \in MethodNames :
           \A i \in 1..Len(GetService(EtcdIndex, sm).nodes) :
               GetService(EtcdIndex, sm).nodes[i].env = CacheEnv

\* ------------------------------------------------------ C18 (ServiceConf)
\* NewRegister runs conf.Bootstrap() on the caller's configuration
BootstrapStep == regPc = "conf" /\ regPc' # "conf"

\* C18: after ServiceConf.Bootstrap, ttl >= 10 and maxRetry >= 3; a configured
\* value below its floor is replaced by the floor, a value at or above the floor
\* is left unchanged, and a value below the floor raises no error (the
\* construction goes on; only the etcd lease grant can fail it)
C18_BootstrapFloors ==
    [][BootstrapStep =>
          /\ regConf'.ttl >= 10 /\ regConf'.maxRetry >= 3
          /\ regConf'.ttl = (IF regConf.ttl < 10 THEN 10 ELSE regConf.ttl)
          /\ regConf'.maxRetry = (IF regConf.maxRetry < 3 THEN 3 ELSE regConf.maxRetry)
          /\ regPc' = "failed" => backend = "etcd"]_vars

\* a session was constructed and its configuration sits on both floors, as it
\* does whenever the caller configured less
C18_Witness ==
    /\ regPc = "new"
    /\ regConf.ttl = TTL
    /\ regConf.maxRetry = DefaultMaxRetry
    /\ backend = "kubernetes"

\* ------------------------------------------------- C19 (sessions, all adapters)
\* a step in which Install writes to the backend
InstallWrites == regWrite' # regWrite /\ regWrite'.by = "Install"

\* C19: in every adapter's session, Install with an empty appId or an empty env
\* returns an error, performs no backend write and leaves the last-known-good
\* node unchanged
C19_InstallRejectsEmptyIdentity ==
    [][(Constructed /\ MetaEmpty) =>
          /\ regResult' \in {regResult, "error"}
          /\ ~InstallWrites
          /\ regLastNode' = regLastNode]_vars

\* ------------------------------------------------------------ C20 (etcd)
Max(x, y) == IF x > y THEN x ELSE y
\* the Watcher takes a normal response that delivers the events up to streamRev' - 1
BatchStep == etcdPc = "recv" /\ etcdPc' = "recv" /\ streamRev' # streamRev
\* the Watcher takes the Canceled response of a compaction
CompactedStep ==
    /\ etcdPc = "recv" /\ etcdPc' = "restart"
    /\ streamRev <= compactRev
    /\ startRev' = compactRev + 1

\* C20: in the etcd Watcher, across every sequence of responses (normal batches,
\* cancellations without compaction, cancellations by compaction, with any
\* header and compact revision the backend may report), the resume cursor never
\* decreases; after a normal batch it equals max(previous cursor, header
\* revision + 1); after a compaction it has moved only forward, to the
\* compaction point
C20_CursorNeverDecreases ==
    [][/\ startRev' >= startRev
       /\ BatchStep => \E headerRev \in (streamRev' - 1)..Rev :
                           startRev' = Max(startRev, headerRev + 1)
       /\ CompactedStep => startRev' >= startRev]_vars

\* ------------------------------------------------------------ C21 (etcd)
\* the Watcher takes a Canceled response that reports no compaction
CanceledStep ==
    /\ etcdPc = "recv" /\ etcdPc' = "restart"
    /\ ~(streamRev <= compactRev /\ startRev' = compactRev + 1)

\* C21: in the etcd Watcher, when the watch stream is cancelled for a reason
\* other than compaction, the Watcher resubscribes from the cursor it held
\* before the cancel response, whatever header revision the response carries:
\* the cancel leaves the cursor unchanged, so that no event committed after the
\* last applied batch is skipped by the resubscription
C21_CancelKeepsCursor == [][CanceledStep => startRev' = startRev]_vars

\* ------------------------------------------------------------ C22 (Consul)
\* C22: in the Consul Watcher the wait-index carried in successive blocking
\* queries never decreases over the lifetime of one Discovery Cache, for any
\* sequence of LastIndex values the backend returns (a LastIndex lower than the
\* one last seen, or zero, included)
C22_WaitIndexNeverDecreases == [][waitIndex' >= waitIndex]_vars

\* ----------------------------------------- C23 (GetService, all adapters)
\* C23: a GetService call running beside the Watcher of the same cache (any
\* adapter) observes the index either entirely before or entirely after a whole
\* update (etcd: one event's remove + insert + method recompute; Consul,
\* Kubernetes: one full map swap): its method lookup and its node-list lookup
\* are answered from one index state, the one it locked, no update was under
\* way in that state, and that state satisfies the method/service consistency
\* invariant
C23_ReadsWholeUpdates ==
    getPc # "idle" =>
        /\ ~getView.mid
        /\ getPc = "found" => getApp = getView.idx.method[getSm]
        /\ getPc = "done" => getOut = GetService(getView.idx, getSm)
        /\ IndexDerived(getView.idx)

\* ------------------------------------------------- C24 (all adapters)
\* a value is malformed: invalid JSON, missing meta, empty appId or empty env
Malformed(raw) ==
    \/ Unmarshal(raw).err
    \/ Unmarshal(raw).val.metaNil
    \/ Unmarshal(raw).val.appId = ""
    \/ Unmarshal(raw).val.env = ""
\* the malformed events a watch stream may carry: puts and deletes of malformed
\* values, a delete without a previous value, a put without a value
MalformedEvents ==
    UNION {{Event("PUT", JunkKey, TRUE, v, FALSE, NotJson),
            Event("DELETE", JunkKey, TRUE, NotJson, TRUE, v)} : v \in MalformedValues}
    \cup UNION {{Event("DELETE", OneKey, TRUE, NotJson, FALSE, v),
                 Event("PUT", OneKey, FALSE, v, FALSE, NotJson)} : v \in EtcdValues(OneKey)}
\* the events from..to applied with the malformed ones left out
RECURSIVE applyWellFormed(_, _, _)
applyWellFormed(idx, from, to) ==
    IF from > to THEN idx
    ELSE LET e == etcdLog[from]
             tv == IF e.type = "DELETE" THEN e.prevKv ELSE e.kv
         IN applyWellFormed(IF Malformed(tv) \/ ~UnderPrefix(e.key) THEN idx ELSE adapter(idx, e),
                            from + 1, to)
\* a snapshot entry / a ConfigMap without its malformed entries
EntryMalformed(entry) ==
    entry.isNil \/ entry.metaNil \/ ~entry.hasNode \/ entry.rawEmpty \/ Malformed(entry.raw)
CleanData(data) == [k \in {x \in DOMAIN data : ~Malformed(data[x])} |-> data[k]]
\* a Consul rebuild publishes what it would publish without the malformed entries
ConsulSkipsMalformed ==
    \A entries \in Snapshots :
        consulRebuilds(entries)
            = consulRebuilds(SelectSeq(entries, LAMBDA en : ~EntryMalformed(en)))
\* the Kubernetes instance rebuilds its index from a ConfigMap it fetched
K8sRebuildStep == cmExists /\ resourceVersion' # resourceVersion

\* C24: in every adapter a malformed change entry (invalid JSON, missing meta,
\* empty appId or empty env; for etcd also a delete event without a previous
\* value) leaves the service and the method index exactly as they were, and the
\* watch loop goes on to apply the later entries of the same batch / snapshot
\* and the later batches: an etcd batch has the effect of its well-formed
\* events, a Consul or Kubernetes rebuild that of the well-formed entries
C24_MalformedEntriesSkipped ==
    /\ [](\A e \in MalformedEvents : adapter(EtcdIndex, e) = EtcdIndex)
    /\ [][BatchStep =>
             /\ Index(etcdService', etcdMethod')
                    = applyWellFormed(EtcdIndex, streamRev, streamRev' - 1)
             /\ etcdPc' = "recv"]_vars
    /\ []ConsulSkipsMalformed
    /\ [][K8sRebuildStep =>
             Index(k8sService', k8sMethod') \in k8sRebuilds(CleanData(cmData), now)]_vars

\* the etcd Watcher has consumed the put of a malformed value and, after it, the
\* put of a session's node: that node is listed and nothing else is
C24_Witness ==
    \E r \in 1..(Len(etcdLog) - 1) :
        /\ AppliedByWatcher(r) /\ AppliedByWatcher(r + 1)
        /\ etcdLog[r].type = "PUT" /\ Malformed(etcdLog[r].kv)
        /\ etcdLog[r + 1].type = "PUT" /\ etcdLog[r + 1].key = OneKey
        /\ "a" \in DOMAIN etcdService
        /\ etcdService["a"][1] = Unmarshal(etcdLog[r + 1].kv).val
        /\ DOMAIN etcdService = {"a"}

\* ------------------------------------------------------------ C25 (etcd)
\* the node values of the sessions a/1 and a/2, as current or previous value of an event
PairValues == EtcdValues(OneKey) \cup EtcdValues(<<"a", 2>>)

\* C25: in the etcd Discovery Cache a Put event that carries both a current
\* value (Kv) and a previous value (PrevKv) is applied using the current value:
\* afterwards the appId's list contains the node decoded from Kv and no node
\* introduced from PrevKv; a Delete event is applied using the previous value
\* and its Kv content is ignored
C25_PutUsesKvDeleteUsesPrevKv ==
    \A v \in PairValues, pv \in PairValues :
        LET node == Unmarshal(v).val
            prev == Unmarshal(pv).val
            put == adapter(EtcdIndex, Event("PUT", OneKey, TRUE, v, TRUE, pv))
            del == adapter(EtcdIndex, Event("DELETE", OneKey, TRUE, v, TRUE, pv))
        IN /\ node.appId \in DOMAIN put.service
           /\ put.service[node.appId][1] = node
           /\ \A i \in 1..Len(put.service[prev.appId]) :
                  put.service[prev.appId][i] = prev =>
                      \/ prev = node
                      \/ \E j \in 1..Len(MapGetSlice(etcdService, prev.appId)) :
                             etcdService[prev.appId][j] = prev
           /\ put = adapter(EtcdIndex, Event("PUT", OneKey, TRUE, v, FALSE, NotJson))
           /\ del = adapter(EtcdIndex, Event("DELETE", OneKey, FALSE, NotJson, TRUE, pv))
           /\ del = adapter(EtcdIndex, Event("DELETE", OneKey, TRUE, NotJson, TRUE, pv))
           /\ \A i \in 1..Len(MapGetSlice(del.service, prev.appId)) :
                  del.service[prev.appId][i].leaseId # prev.leaseId

\* the Watcher has applied a put whose previous value differs from its current
\* value: the node of the current value heads the list, that of the previous
\* value is not listed
C25_Witness ==
    \E r \in 1..Len(etcdLog) :
        /\ AppliedByWatcher(r)
        /\ r + 1 = streamRev
        /\ etcdLog[r].type = "PUT"
        /\ etcdLog[r].hasPrevKv
        /\ etcdLog[r].kv # etcdLog[r].prevKv
        /\ "a" \in DOMAIN etcdService
        /\ etcdService["a"][1] = Unmarshal(etcdLog[r].kv).val
        /\ \A i \in 1..Len(etcdService["a"]) :
               etcdService["a"][i] # Unmarshal(etcdLog[r].prevKv).val

\* ------------------------------------------------------------ C26 (Consul)
\* a snapshot entry whose Service.Meta node JSON decodes to a node with
\* non-empty appId and with meta.env equal to the cache's env
Qualifies(entry) ==
    /\ ~entry.isNil
    /\ ~entry.metaNil
    /\ entry.hasNode /\ ~entry.rawEmpty
    /\ ~Unmarshal(entry.raw).err
    /\ ~Unmarshal(entry.raw).val.metaNil
    /\ Unmarshal(entry.raw).val.appId # ""
    /\ Unmarshal(entry.raw).val.env = CacheEnv

\* C26: in the Consul Discovery Cache, rebuild indexes every snapshot entry
\* whose Service.Meta node JSON decodes to a node with non-empty appId and
\* meta.env equal to the cache's env (it is listed under its appId and its
\* methods are answered by GetService), whatever other keys Service.Meta does
\* or does not carry; entries whose node env differs from the cache's env,
\* entries with invalid JSON, entries without a node value and nil entries are
\* excluded (the index lists one node per qualifying entry and no other)
C26_RebuildIndexesQualifying ==
    consulPc = "loop" =>
        /\ \A i \in 1..Len(healthEntries) :
               Qualifies(healthEntries[i]) =>
                   LET node == Unmarshal(healthEntries[i].raw).val
                   IN /\ \E j \in 1..Len(MapGetSlice(consulService, node.appId)) :
                             consulService[node.appId][j] = node
                      /\ \A sm \in node.methods :
                             consulGetService(ConsulIndex, sm).err = "nil"
        /\ \A a \in DOMAIN consulService : \A j \in 1..Len(consulService[a]) :
               consulService[a][j].env = CacheEnv
        /\ Cardinality({p \in (DOMAIN consulService) \X (1..MaxEntries) :
                           p[2] <= Len(consulService[p[1]])})
               = Cardinality({i \in 1..Len(healthEntries) : Qualifies(healthEntries[i])})

\* NewDiscover returns an instance
K8sBootstrapStep == k8sPc = "new" /\ k8sPc' = "built"

\* Watcher is running on a ConfigMap whose resourceVersion is rv, not the cached one
Behind(rv) ==
    /\ k8sPc \in {"select", "backoff"} /\ ~k8sCtxDone
    /\ cmExists /\ cmRV = rv /\ resourceVersion # rv

\* the cache has just been rebuilt from the ConfigMap at resourceVersion rv
CaughtUp(rv) ==
    /\ cmExists /\ cmRV = rv /\ resourceVersion = rv
    /\ pollResult = "rebuilt"
    /\ K8sIndex \in k8sRebuilds(cmData, now)

\* C27: in the Kubernetes Discovery Cache, GetService answers from the
\* bootstrap snapshot as soon as NewDiscover returns (the index is the one
\* rebuilt from the ConfigMap read by bootstrap, empty if there is none, and
\* nothing changes it before Watcher is started); and if the ConfigMap changes
\* to a new resourceVersion while Watcher is running, fetches succeed and the
\* poll timer keeps firing, then the cache eventually holds the snapshot of
\* that resourceVersion (unless the ConfigMap changes again or is deleted, or
\* Unwatch is called, first)
C27_BootstrapThenFollow ==
    /\ [][K8sBootstrapStep =>
              /\ Index(k8sService', k8sMethod') \in
                     (IF cmExists THEN k8sRebuilds(cmData, now)
                                  ELSE {Index(EmptyMap, EmptyMap)})
              /\ \A sm \in MethodNames :
                     k8sGetService(Index(k8sService', k8sMethod'), sm).err = "nil"
                         <=> \E k \in DOMAIN cmData :
                                 /\ k8sKeep(cmData[k], now)
                                 /\ sm \in Unmarshal(cmData[k]).val.methods]_vars
    /\ [][k8sPc = "built" /\ k8sPc' = "built" => K8sIndex' = K8sIndex]_vars
    /\ \A rv \in 1..MaxRV :
           Behind(rv) ~> (CaughtUp(rv) \/ ~cmExists \/ cmRV # rv \/ k8sCtxDone)

\* Watcher has rebuilt the cache from a ConfigMap written after bootstrap
C27_Witness ==
    /\ k8sPc = "select" /\ ~k8sCtxDone
    /\ cmRV >= 2
    /\ CaughtUp(cmRV)
    /\ DOMAIN k8sService # {}

\* the session's Install has written its node / its Uninstall has removed it
InstallWrote == regWrite' # regWrite /\ regWrite'.by = "Install"
UninstallRemoved == regWrite' # regWrite /\ regWrite'.by = "Uninstall"
\* Uninstall is called on a session that was not yet cancelled
UninstallCalled == Constructed /\ ~regCtxDone /\ regCtxDone'
\* every entry but the session's own is as it was
OthersKept ==
    \A k \in (DOMAIN cmData \cup DOMAIN cmData') \ {dataKey} :
        k \in DOMAIN cmData /\ k \in DOMAIN cmData' /\ cmData'[k] = cmData[k]

\* C28: in a Kubernetes Registration Session a successful Install adds exactly
\* one data entry, keyed appId/leaseId, that holds the JSON of the node with a
\* non-zero leaseId and the session's meta; an Uninstall whose Update goes
\* through removes exactly that entry, the ConfigMap still exists and every
\* entry of another session is unchanged; Uninstall on a store where the key
\* or the ConfigMap is absent writes nothing
C28_InstallAddsUninstallRemoves ==
    [][backend = "kubernetes" =>
          /\ InstallWrote =>
                 /\ leaseId # 0
                 /\ cmExists'
                 /\ DOMAIN cmData' = DOMAIN cmData \cup {dataKey}
                 /\ OthersKept
                 /\ LET u == Unmarshal(cmData'[dataKey])
                    IN /\ ~u.err /\ ~u.val.metaNil
                       /\ u.val.leaseId = leaseId /\ u.val.leaseId # 0
                       /\ u.val.appId = regMeta.appId /\ u.val.env = regMeta.env
          /\ UninstallRemoved =>
                 /\ cmExists /\ cmExists'
                 /\ dataKey \in DOMAIN cmData
                 /\ DOMAIN cmData' = DOMAIN cmData \ {dataKey}
                 /\ OthersKept
          /\ UninstallCalled =>
                 IF cmExists /\ dataKey \in DOMAIN cmData
                 THEN cmExists' /\ OthersKept
                 ELSE UNCHANGED <<cmExists, cmData, cmRV>>]_vars

\* the session has installed and then uninstalled beside another session's
\* entry, which is still there
C28_Witness ==
    /\ backend = "kubernetes"
    /\ regResult = "nil"
    /\ regWrite.by = "Uninstall"
    /\ cmExists
    /\ DOMAIN cmData = {OtherKey}

\* C29: for one Consul Registration Session, over any sequence of Install
\* calls, heartbeats and retry re-registrations, the service ID, once taken,
\* never changes, every ServiceRegister carries it, every UpdateTTL targets the
\* check ID "service:" + that service ID, and Uninstall issues exactly one
\* ServiceDeregister for it, and no agent call at all if no Install got as far
\* as taking a service ID
C29_OneServiceId ==
    /\ [][backend = "consul" /\ serviceId # NoServiceId =>
              serviceId' = serviceId /\ checkId' = checkId]_vars
    /\ [](backend = "consul" =>
              /\ \A i \in 1..Len(agentCalls) :
                     /\ serviceId # NoServiceId
                     /\ agentCalls[i].op = "UpdateTTL" =>
                            agentCalls[i].check = CheckIdOf(serviceId)
                     /\ agentCalls[i].op # "UpdateTTL" => agentCalls[i].service = serviceId
              /\ regLastNode = "nil" => serviceId = NoServiceId)
    /\ [][backend = "consul" /\ UninstallCalled =>
              agentCalls' = IF regLastNode = "nil" THEN <<>>
                            ELSE <<AgentCall("ServiceDeregister", serviceId, NoCheckId)>>]_vars

\* a session that had to re-register has been uninstalled: the one
\* deregistration names the service ID of its registrations
C29_Witness ==
    /\ backend = "consul"
    /\ regWrite.by = "Uninstall"
    /\ wire = NilNode
    /\ nodeVal # NilNode
    /\ agentCalls = <<AgentCall("ServiceDeregister", serviceId, NoCheckId)>>
    /\ serviceId.leaseId = leaseId

\* a degraded session has recovered: the retry loop has re-written the node
RecoveredStep == regPc = "retry" /\ regPc' = "top" /\ regLastNode # "nil"

\* C30: when a degraded session recovers, the node value it re-writes to the
\* backend carries the leaseId of the newly acquired registration handle and a
\* runDate refreshed at recovery time, later than the runDate of the last
\* write made before the failure, in every adapter
C30_RecoveryRestamps ==
    [][RecoveredStep =>
          /\ wire' = nodeVal'
          /\ wire'.leaseId = leaseId'
          /\ wire'.runDate = Format(now)
          /\ wire # NilNode /\ now > ParseInLocation(wire.runDate).t =>
                 ParseInLocation(wire'.runDate).t > ParseInLocation(wire.runDate).t]_vars

\* C31: in every retry iteration of SustainLease the steps come in the order
\* pre-retry hook, backoff wait, counter increment, handle re-acquisition and
\* node re-write, post-retry hook; the post-retry hook fires only when the
\* re-write of the same iteration succeeded, exactly once per return to the
\* loop head, and leaves the retry counter at 0, as a successful renewal does;
\* the post-retry hook has never fired more often than the pre-retry hook
C31_RetryIterationOrder ==
    /\ [][/\ retryBefore' # retryBefore => regPc = "retry" /\ regPc' = "wait"
          /\ regPc = "wait" /\ regPc' \notin {"wait", "returned"} =>
                 /\ retryCount' = retryCount + 1
                 /\ regPc' = (IF backend = "consul" THEN "rewrite" ELSE "acquire")
          /\ retryCount' > retryCount => regPc = "wait"
          /\ regPc # "rewrite" /\ regPc' = "rewrite" =>
                 regPc = (IF backend = "consul" THEN "wait" ELSE "acquire")
          /\ retryAfter' # retryAfter =>
                 /\ regPc = "rewrite" /\ regPc' = "top"
                 /\ regLastNode # "nil" =>
                        regWrite' # regWrite /\ regStored' = regLastNode
          /\ regPc = "rewrite" /\ regPc' = "top" =>
                 retryAfter' = Bump(retryAfter) /\ retryCount' = 0
          /\ regPc = "beat" /\ regPc' = "top" => retryCount' = 0]_vars
    /\ [](retryAfter <= retryBefore)
    /\ [](regPc \in {"top", "recv", "beat"} => retryCount = 0)

\* a session is back at the loop head after a failed and a successful iteration
C31_Witness ==
    /\ regPc = "top"
    /\ retryAfter = 1
    /\ retryBefore = 2
    /\ regStored # "none"

\* pullAndRebuildIfChanged has returned nil on a ConfigMap that exists
Polled ==
    /\ k8sPc = "select" /\ k8sPc' = "select"
    /\ cmExists
    /\ pollResult' \in {"skipped", "rebuilt"}
    /\ UNCHANGED <<now, cmExists, cmData, cmRV, k8sCtxDone>>

\* C32: in the Kubernetes Discovery Cache, a poll that returns a snapshot whose
\* resourceVersion is non-empty and equal to the one recorded at the last
\* rebuild leaves the service index, the method index and the recorded
\* resourceVersion unchanged; when the returned resourceVersion differs or is
\* empty, the indices are rebuilt from the snapshot and the recorded
\* resourceVersion becomes the returned one
C32_SkipOnlySameVersion ==
    [][Polled =>
          IF cmRV # 0 /\ cmRV = resourceVersion
          THEN /\ UNCHANGED <<k8sService, k8sMethod, resourceVersion>>
               /\ pollResult' = "skipped"
          ELSE /\ Index(k8sService', k8sMethod') \in k8sRebuilds(cmData, now)
               /\ resourceVersion' = cmRV
               /\ pollResult' = "rebuilt"]_vars

\* a poll has rebuilt the index from a snapshot that carries the empty
\* resourceVersion, which is also the recorded one
C32_Witness ==
    /\ k8sPc = "select"
    /\ cmExists /\ cmRV = 0 /\ resourceVersion = 0
    /\ pollResult = "rebuilt"
    /\ Cardinality(DOMAIN k8sService) = 2
    /\ K8sIndex \in k8sRebuilds(cmData, now)

\* C33: in the Consul and Kubernetes Watchers a fetch that fails with an error
\* other than not-found while the cache is not cancelled leaves the service
\* index, the method index and the cursor (waitIndex / resourceVersion)
\* unchanged and surfaces nothing: the loop goes to its backoff, from which its
\* only way on is the next fetch, and it has returned only if it was
\* cancelled; in the Kubernetes Watcher a not-found result empties both
\* indices and resets the recorded resourceVersion
C33_FetchErrorKeepsCache ==
    /\ [][/\ consulPc = "loop" /\ consulPc' = "backoff" =>
                 UNCHANGED <<consulService, consulMethod, waitIndex>>
          /\ k8sPc = "select" /\ k8sPc' = "backoff" =>
                 UNCHANGED <<k8sService, k8sMethod, resourceVersion>>
          /\ consulPc = "backoff" /\ consulPc' # "backoff" =>
                 consulPc' = (IF consulCtxDone THEN "returned" ELSE "loop")
          /\ k8sPc = "backoff" /\ k8sPc' # "backoff" =>
                 k8sPc' \in (IF k8sCtxDone THEN {"returned", "select"} ELSE {"select"})
          /\ /\ k8sPc = "select" /\ ~cmExists /\ pollResult' # pollResult
             /\ UNCHANGED <<k8sPc, now, cmExists>>
             => /\ pollResult' = "reset"
                /\ k8sService' = EmptyMap /\ k8sMethod' = EmptyMap
                /\ resourceVersion' = 0]_vars
    /\ [](consulPc = "returned" => consulCtxDone)
    /\ [](k8sPc = "returned" => k8sCtxDone)
    /\ [](consulPc = "backoff" /\ ~consulCtxDone => ENABLED ConsulWatchBackoff)
    /\ [](k8sPc = "backoff" => ENABLED K8sBackoff)

\* a Watcher is in its backoff, not cancelled, with the index it had built
C33_Witness ==
    \/ /\ backend = "consul" /\ consulPc = "backoff" /\ ~consulCtxDone
       /\ DOMAIN consulService # {} /\ waitIndex # 0
    \/ /\ backend = "kubernetes" /\ k8sPc = "backoff" /\ ~k8sCtxDone
       /\ DOMAIN k8sService # {} /\ resourceVersion # 0

\* C34: in the Kubernetes cache, whenever two nodes of one appId's list have
\* equal run_date, the node with the larger leaseId precedes the node with
\* the smaller leaseId, whatever order the rebuild ranged over the snapshot in
C34_EqualRunDateByLeaseId ==
    \A a \in DOMAIN k8sService :
        \A i, j \in 1..Len(k8sService[a]) :
            /\ k8sService[a][i].runDate = k8sService[a][j].runDate
            /\ k8sService[a][i].leaseId > k8sService[a][j].leaseId
            => i < j

\* ------------------------------------------- etcd cache, one put at a time
\* three sessions of two appIds; b/1 may declare X or Y
PutKeys == {<<"a", 1>>, <<"a", 2>>, <<"b", 1>>}
PutValues(k) ==
    {Marshal(Node(k[1], CacheEnv, k[2], ms, Format(0))) :
        ms \in IF k = <<"a", 1>> THEN {{"X", "Y"}}
               ELSE IF k = <<"b", 1>> THEN {{"X"}, {"Y"}} ELSE {{"X"}}}

PutNext ==
    \/ backend = "etcd" /\ \E k \in PutKeys : \E v \in PutValues(k) : EtcdPut(k, v)
    \/ backend = "etcd" /\ \E k \in PutKeys : EtcdDelete(k)
    \/ EtcdNewDiscover
    \/ EtcdWatcher
    \/ EtcdWatchOpen
    \/ backend = "etcd" /\ \E h \in 1..MaxRev : EtcdWatchEvents(h)

SpecPut == InitEtcd /\ [][PutNext]_vars

\* the Watcher applies exactly the event of revision streamRev, a put
PutApplied ==
    /\ etcdPc = "recv"
    /\ streamRev >= 1
    /\ streamRev' = streamRev + 1
    /\ etcdLog' = etcdLog
    /\ etcdLog[streamRev].type = "PUT"

PutNodeFirst ==
    LET n == Unmarshal(etcdLog[streamRev].kv).val
        a == n.appId
    IN /\ a \in DOMAIN etcdService'
       /\ etcdService'[a][1] = n
       /\ Tail(etcdService'[a]) = SelectSeq(MapGetSlice(etcdService, a),
                                            LAMBDA item : item.leaseId # n.leaseId)
       /\ \A b \in Apps \ {a} :
              /\ b \in DOMAIN etcdService' <=> b \in DOMAIN etcdService
              /\ b \in DOMAIN etcdService => etcdService'[b] = etcdService[b]

OthersMethodsKept ==
    LET n == Unmarshal(etcdLog[streamRev].kv).val
    IN \A sm \in DOMAIN etcdMethod :
           etcdMethod[sm] # n.appId /\ sm \notin n.methods =>
               sm \in DOMAIN etcdMethod' /\ etcdMethod'[sm] = etcdMethod[sm]

\* C35 (node lists): the put node is first in its appId's list, the other
\* nodes of the appId follow in their old order, other appIds' lists are kept
C35_NodeLists == [][PutApplied => PutNodeFirst]_vars

\* C35: after a put event for node n of appId a is applied, n is at index 0 of
\* a's node list and the remaining nodes of a keep their relative order; node
\* lists of other appIds, and method entries owned by other appIds for methods
\* n does not declare, are unchanged
C35_PutPrependsKeepsOthers == [][PutApplied => PutNodeFirst /\ OthersMethodsKept]_vars

\* ------------------------------------- etcd Watcher, compaction as the only
\* reason a watch stream ends
ResumeNext ==
    \/ backend = "etcd" /\ \E v \in EtcdValues(OneKey) : EtcdPut(OneKey, v)
    \/ EtcdDelete(OneKey)
    \/ EtcdNewDiscover
    \/ EtcdWatcher
    \/ EtcdWatchOpen
    \/ backend = "etcd" /\ \E h \in 1..MaxRev : EtcdWatchEvents(h)
    \/ backend = "etcd" /\ \E c \in 1..MaxRev : EtcdCompact(c)
    \/ EtcdWatchCompacted
    \/ EtcdWatchBackoff

SpecResume == InitEtcd /\ [][ResumeNext]_vars

\* the nodes listed in the service index / the nodes the store holds
ListedNodes == UNION {{etcdService[a][i] : i \in 1..Len(etcdService[a])} : a \in DOMAIN etcdService}
StoredNodes == {Unmarshal(Store[k]).val : k \in {x \in DOMAIN Store : UnderPrefix(x)}}
\* the open stream has delivered every event of the store
StreamCaughtUp == etcdPc = "recv" /\ streamRev = Rev + 1

\* C36 (no compaction): a stream that was never cut by a compaction and has
\* delivered every event leaves the service index equal to the store
C36_UncompactedMatches == StreamCaughtUp /\ compactRev = 0 => ListedNodes = StoredNodes

\* C36: once the Watcher has resumed after a compaction and applied all later
\* events, the service index equals the store under the watched prefix: no
\* node deleted in the compacted window remains, none created in it is missing
C36_ResumeMatchesStore == StreamCaughtUp => ListedNodes = StoredNodes

\* ---------------- Kubernetes Registration Sessions sharing one ConfigMap
\* upsertDataKey and deleteDataKey, one API call per step.  writers[w] holds
\* the call of session w: its position, its arguments, the loop counter i
\* (try), the ConfigMap its Get returned (data, rv), what the call returned
\* (ret) and the value its last successful call left under its key (stored;
\* NotJson: none).  Each session writes its own key {appId}-{leaseId}.
UpdateAttempts == 5
WriterKey(w) == <<"a", w>>
\* session 1 heartbeats (a new run_date) as well as installs
WriterValues(w) ==
    {Marshal(lastNode(WriterKey(w), t)) : t \in IF w = 1 THEN {0, TTL} ELSE {0}}
writerFrame ==
    <<backend, etcdVars, consulVars, readVars, now, k8sService, k8sMethod, resourceVersion,
      k8sPc, k8sCtxDone, pollResult, regPc, regConf, regMeta, regCtxDone, retryCount,
      retryBefore, retryAfter, lossCount, attemptCount, regLastNode, regStored, regWrite,
      regResult, regRemoving, nodeVars>>
WriterSet(w, r) == writers' = [writers EXCEPT ![w] = r]

\* a session calls upsertDataKey(key, value) or deleteDataKey(key)
WriterCall(w, op, v) ==
    /\ backend = "kubernetes"
    /\ writers[w].pc = "idle"
    /\ WriterSet(w, [writers[w] EXCEPT !.pc = IF op = "upsert" THEN "ensure" ELSE "get",
                                       !.op = op, !.val = v, !.try = 0, !.ret = "none"])
    /\ UNCHANGED <<writerFrame, cmExists, cmData, cmRV>>

\* ensureConfigMap: Get, and Create when the ConfigMap is not found
\* (AlreadyExists counts as success)
ensureConfigMap(w) ==
    /\ backend = "kubernetes"
    /\ writers[w].pc = "ensure"
    /\ cmExists' = TRUE
    /\ IF cmExists THEN UNCHANGED <<cmData, cmRV>>
       ELSE cmData' = EmptyMap /\ cmRV' = cmRV + 1
    /\ WriterSet(w, [writers[w] EXCEPT !.pc = "get"])
    /\ UNCHANGED writerFrame

\* a Get, a Create or an Update fails with an error that is neither NotFound
\* nor Conflict: the call returns it
WriterError(w) ==
    /\ backend = "kubernetes"
    /\ writers[w].pc \in {"ensure", "get", "update"}
    /\ WriterSet(w, [writers[w] EXCEPT !.pc = "idle", !.ret = "error"])
    /\ UNCHANGED <<writerFrame, cmExists, cmData, cmRV>>

\* the Get of one loop iteration.  deleteDataKey returns nil when there is no
\* ConfigMap or no such key
WriterGet(w) ==
    /\ backend = "kubernetes"
    /\ writers[w].pc = "get"
    /\ cmExists
    /\ IF writers[w].op = "delete" /\ WriterKey(w) \notin DOMAIN cmData
       THEN WriterSet(w, [writers[w] EXCEPT !.pc = "idle", !.ret = "nil", !.stored = NotJson])
       ELSE WriterSet(w, [writers[w] EXCEPT !.pc = "update", !.data = cmData, !.rv = cmRV])
    /\ UNCHANGED <<writerFrame, cmExists, cmData, cmRV>>

\* deleteDataKey, the Get answers NotFound: return nil
WriterGetNotFound(w) ==
    /\ backend = "kubernetes"
    /\ writers[w].pc = "get"
    /\ writers[w].op = "delete"
    /\ ~cmExists
    /\ WriterSet(w, [writers[w] EXCEPT !.pc = "idle", !.ret = "nil", !.stored = NotJson])
    /\ UNCHANGED <<writerFrame, cmExists, cmData, cmRV>>

\* an Update that replaces the ConfigMap whatever resourceVersion it carries
WriterUpdateBlind(w) ==
    /\ backend = "kubernetes"
    /\ writers[w].pc = "update"
    /\ cmRV < UpdateAttempts + 1
    /\ cmData' = IF writers[w].op = "upsert"
                 THEN MapSet(writers[w].data, WriterKey(w), writers[w].val)
                 ELSE MapDelete(writers[w].data, WriterKey(w))
    /\ cmRV' = cmRV + 1
    /\ WriterSet(w, [writers[w] EXCEPT
                        !.pc = "idle", !.ret = "nil",
                        !.stored = IF writers[w].op = "upsert" THEN writers[w].val ELSE NotJson])
    /\ UNCHANGED <<writerFrame, cmExists>>

\* the Update of one loop iteration: the API server accepts it when the
\* ConfigMap still has the resourceVersion the Get returned, and answers
\* Conflict otherwise; after a Conflict the loop continues, and after
\* UpdateAttempts iterations the call returns lastErr
WriterUpdate(w) ==
    /\ backend = "kubernetes"
    /\ writers[w].pc = "update"
    /\ IF writers[w].rv = cmRV
       THEN /\ cmRV < UpdateAttempts + 1
            /\ cmData' = IF writers[w].op = "upsert"
                         THEN MapSet(writers[w].data, WriterKey(w), writers[w].val)
                         ELSE MapDelete(writers[w].data, WriterKey(w))
            /\ cmRV' = cmRV + 1
            /\ WriterSet(w, [writers[w] EXCEPT
                                !.pc = "idle", !.ret = "nil",
                                !.stored = IF writers[w].op = "upsert" THEN writers[w].val
                                           ELSE NotJson])
       ELSE /\ UNCHANGED <<cmData, cmRV>>
            /\ WriterSet(w, [writers[w] EXCEPT
                                !.try = @ + 1,
                                !.pc = IF writers[w].try + 1 = UpdateAttempts THEN "idle" ELSE "get",
                                !.ret = IF writers[w].try + 1 = UpdateAttempts THEN "conflict"
                                        ELSE "none"])
    /\ UNCHANGED <<writerFrame, cmExists>>

WritersNext ==
    \/ backend = "kubernetes" /\ \E w \in Writers : \E v \in WriterValues(w) :
           WriterCall(w, "upsert", v)
    \/ backend = "kubernetes" /\ \E w \in Writers : WriterCall(w, "delete", NotJson)
    \/ backend = "kubernetes" /\ \E w \in Writers : ensureConfigMap(w)
    \/ backend = "kubernetes" /\ \E w \in Writers : WriterError(w)
    \/ backend = "kubernetes" /\ \E w \in Writers : WriterGet(w)
    \/ backend = "kubernetes" /\ \E w \in Writers : WriterGetNotFound(w)
    \/ backend = "kubernetes" /\ \E w \in Writers : WriterUpdate(w)

SpecWriters == InitK8s /\ [][WritersNext]_vars

\* the ConfigMap holds under the key of session w what w's last successful
\* call left there
Reflects(w) ==
    IF writers[w].stored = NotJson THEN WriterKey(w) \notin DOMAIN cmData
    ELSE WriterKey(w) \in DOMAIN cmData /\ cmData[WriterKey(w)] = writers[w].stored

\* C37: with several Kubernetes sessions writing into the same ConfigMap, once
\* a session's upsertDataKey or deleteDataKey has returned success the
\* ConfigMap reflects its change and keeps every entry the other sessions have
\* successfully written and not deleted; a call that keeps meeting conflicts
\* stops after 5 attempts, returns the conflict error and has changed nothing
C37_NoLostUpdate ==
    /\ [](\A w \in Writers : Reflects(w))
    /\ [](\A w \in Writers :
              /\ writers[w].try <= UpdateAttempts
              /\ writers[w].pc \in {"get", "update"} => writers[w].try < UpdateAttempts
              /\ writers[w].ret = "conflict" <=>
                     writers[w].pc = "idle" /\ writers[w].try = UpdateAttempts)
    /\ [][\A w \in Writers :
              writers'[w].ret = "conflict" /\ writers[w].ret # "conflict" =>
                  /\ writers[w].rv # cmRV
                  /\ UNCHANGED <<cmExists, cmData, cmRV>>]_vars

\* one session has given up after its fifth conflict while the entry of the
\* other session, written in between, is in the ConfigMap
C37_Witness ==
    /\ writers[1].ret = "conflict"
    /\ writers[2].ret = "nil" /\ writers[2].stored # NotJson
    /\ WriterKey(2) \in DOMAIN cmData

\* every node a successful GetService(sm) returns declares sm
ReturnsOnlyServers(idx, get(_, _)) ==
    \A sm \in MethodNames :
        get(idx, sm).err = "nil" =>
            \A i \in 1..Len(get(idx, sm).nodes) : sm \in get(idx, sm).nodes[i].methods

\* C38: in every reachable index state of each adapter's cache, every node
\* returned by a successful GetService(m) has m in its own methods set, also
\* when nodes of one appId declare different method sets
C38_ReturnedNodesServeMethod ==
    /\ ReturnsOnlyServers(Index(etcdService, etcdMethod), GetService)
    /\ ReturnsOnlyServers(Index(consulService, consulMethod), consulGetService)
    /\ ReturnsOnlyServers(Index(k8sService, k8sMethod), k8sGetService)

\* Install has returned an error: the only step that ends with that result
\* and leaves the loop, the lease, the clock and the backend as they were
InstallFailed ==
    /\ Constructed
    /\ regResult' = "error"
    /\ UNCHANGED <<regPc, retryCount, leaseId, now, regCtxDone, regWrite, wire>>
    /\ <<regResult, regLastNode, nodeVal, agentCalls, serviceId>>'
           # <<regResult, regLastNode, nodeVal, agentCalls, serviceId>>

\* C39: when the backend write of Install fails, Install returns the error and
\* the node the session keeps for its retries (s.lastNode) is the one it kept
\* before the call, so that a later retry in SustainLease does not write the
\* node whose Install failed
C39_FailedInstallKeepsLastNode ==
    [][InstallFailed => regLastNode' = regLastNode /\ nodeVal' = nodeVal]_vars

\* ----------------- a session whose caller starts SustainLease again after it
\* has returned
AgainNext ==
    \/ RegNext
    \/ SustainLeaseAgain

SpecAgain == InitRegister /\ [][AgainNext]_vars

\* C40: a SustainLease call on a session that is installed and not cancelled
\* abandons only after maxRetry recovery attempts of that call have failed,
\* also when an earlier call on the same session had exhausted its retries
\* and this call loses its renewal before any renewal succeeds
C40_FreshBudgetAfterReinstall ==
    [][regPc = "retry" /\ regPc' = "returned" /\ ~regCtxDone /\ regResult = "nil" =>
           attemptCount >= (IF MaxRetry < MaxCount THEN MaxRetry ELSE MaxCount)]_vars

====
